---------------------------- MODULE Spec2Model ----------------------------
(***************************************************************************)
(* Tender scoring and routing pipeline (robertsweetman/module_2).          *)
(*                                                                         *)
(* The module models three crates:                                         *)
(*   - ml_bid_predictor: features.rs (feature extraction, exclusion        *)
(*     score), ml_predictor.rs (predict), main.rs (the SQS batch handler), *)
(*     database.rs and queue_handler.rs (the two side effects);            *)
(*   - pdf_processing: main.rs (content acquisition and routing).          *)
(*                                                                         *)
(* Numbers.  The code computes in f64.  Here every real is a fixed-point   *)
(* integer in millionths (Micro), divisions round towards minus infinity.  *)
(* The comparisons of the exclusion score with 1.0, 2.0 and 4.0 are exact  *)
(* in this representation: the score is 25*S2/wc for integers S2 and wc,   *)
(* so it differs from a threshold by at least 1/wc or not at all.          *)
(*                                                                         *)
(* Text.  A text is a sequence of runs [w, n]: the word w repeated n       *)
(* times, words separated by one space.  Words are already case-folded     *)
(* (the code lowercases the text and its patterns are case-insensitive).   *)
(***************************************************************************)
EXTENDS Integers, Sequences, FiniteSets, TLC

(***************************************************************************)
(* Bounds of the model.                                                    *)
(***************************************************************************)
\* Longest content, in runs, that the prediction specification enumerates.
MaxRuns == 2
\* Messages on the inbound queue of a stage.
NumMsgs == 2
\* Invocations of a stage's handler in one behaviour.
MaxInvocations == 2

\* One, in millionths.
Micro == 1000 * 1000

Min(a, b) == IF a <= b THEN a ELSE b
Max(a, b) == IF a >= b THEN a ELSE b

\* floor(a * b / c) for 0 <= a, 0 <= b, 0 < c without forming a * b * (anything
\* larger): used where the code divides two f64 values.
MulDiv(a, b, c) == (a \div c) * b + ((a % c) * b) \div c

(***************************************************************************)
(* Words and texts.                                                        *)
(***************************************************************************)
\* The words texts are built from: key terms, exclusion terms, halves of
\* exclusion phrases, a neutral ASCII word, a code number, and "tairiscinti",
\* which stands for the Irish word written with a final i-acute: 11
\* characters, 12 bytes.
Vocab == {"software", "support", "services", "works", "construction",
          "catering", "lorem", "72000000", "tairiscinti", "technical"}

\* str::len(): the length in BYTES of the UTF-8 encoding.
WordBytes(w) ==
    CASE w = "software" -> 8
      [] w = "support" -> 7
      [] w = "services" -> 8
      [] w = "works" -> 5
      [] w = "construction" -> 12
      [] w = "catering" -> 8
      [] w = "lorem" -> 5
      [] w = "72000000" -> 8
      [] w = "tairiscinti" -> 12
      [] w = "technical" -> 9

\* The number of characters (Unicode scalar values) of a word.
WordChars(w) ==
    CASE w = "tairiscinti" -> 11
      [] OTHER -> WordBytes(w)

Run(w, n) == [w |-> w, n |-> n]

RECURSIVE WordCountRuns(_)
\* text.split_whitespace().count()
WordCountRuns(rs) ==
    IF rs = <<>> THEN 0 ELSE Head(rs).n + WordCountRuns(Tail(rs))

RECURSIVE SumBytes(_)
SumBytes(rs) ==
    IF rs = <<>> THEN 0
    ELSE Head(rs).n * WordBytes(Head(rs).w) + SumBytes(Tail(rs))

RECURSIVE SumChars(_)
SumChars(rs) ==
    IF rs = <<>> THEN 0
    ELSE Head(rs).n * WordChars(Head(rs).w) + SumChars(Tail(rs))

\* Bytes of the words of rs joined by single spaces.
RunsBytes(rs) ==
    IF rs = <<>> THEN 0 ELSE SumBytes(rs) + WordCountRuns(rs) - 1

\* Characters of the words of rs joined by single spaces.
RunsChars(rs) ==
    IF rs = <<>> THEN 0 ELSE SumChars(rs) + WordCountRuns(rs) - 1

(***************************************************************************)
(* An optional string (Option<String>): some = FALSE is None; otherwise    *)
(* ws leading whitespace characters followed by the words of runs.         *)
(***************************************************************************)
NoneStr == [some |-> FALSE, ws |-> 0, runs |-> <<>>]
Str(ws, rs) == [some |-> TRUE, ws |-> ws, runs |-> rs]

\* s.len() of a present string.
StrBytes(s) == s.ws + RunsBytes(s.runs)
\* s.trim().len()
TrimBytes(s) == RunsBytes(s.runs)
\* s.trim().chars().count()
TrimChars(s) == RunsChars(s.runs)
\* s.trim().is_empty()
TrimIsEmpty(s) == s.runs = <<>>

(***************************************************************************)
(* features.rs: the term tables.  A term is a sequence of words.           *)
(***************************************************************************)
\* KEY_TERMS, in order (features.rs:22-25).
KEY_TERMS == << "software", "support", "provision", "computer", "services",
                "systems", "management", "works", "package", "technical" >>

\* EXCLUSION_TERMS, in order (features.rs:29-70).
EXCLUSION_TERMS == <<
    <<"ground">>, <<"investigation">>, <<"construction">>, <<"building">>,
    <<"road">>, <<"bridge">>, <<"excavation">>, <<"concrete">>, <<"steel">>,
    <<"infrastructure">>, <<"landscaping">>, <<"drainage">>, <<"utilities">>,
    <<"geotechnical">>, <<"earthworks">>, <<"paving">>, <<"demolition">>,
    <<"refurbishment">>, <<"renovation">>, <<"roofing">>, <<"flooring">>,
    <<"mechanical">>, <<"electrical">>, <<"plumbing">>, <<"hvac">>,
    <<"heating">>, <<"ventilation">>, <<"air", "conditioning">>, <<"boiler">>,
    <<"pump">>, <<"pipe">>, <<"wiring">>, <<"circuit">>,
    <<"site">>, <<"contractor">>, <<"materials">>, <<"equipment">>,
    <<"machinery">>, <<"civil">>, <<"structural">>, <<"architectural">>,
    <<"survey">>, <<"planning">>,
    <<"medical">>, <<"healthcare">>, <<"nursing">>, <<"clinical">>,
    <<"pharmaceutical">>, <<"therapy">>, <<"treatment">>, <<"patient">>,
    <<"hospital">>, <<"clinic">>,
    <<"catering">>, <<"food">>, <<"kitchen">>, <<"dining">>, <<"restaurant">>,
    <<"meal">>, <<"cooking">>, <<"chef">>, <<"menu">>, <<"nutrition">>,
    <<"cleaning">>, <<"maintenance">>, <<"janitorial">>, <<"waste">>,
    <<"refuse">>, <<"hygiene">>, <<"sanitization">>, <<"pest", "control">>,
    <<"transport">>, <<"logistics">>, <<"delivery">>, <<"freight">>,
    <<"shipping">>, <<"warehouse">>, <<"storage">>, <<"fleet">>, <<"vehicle">>,
    <<"truck">>,
    <<"legal">>, <<"solicitor">>, <<"barrister">>, <<"audit">>,
    <<"accounting">>, <<"insurance">>, <<"pension">>, <<"investment">>,
    <<"banking">>,
    <<"security">>, <<"guard">>, <<"surveillance">>, <<"alarm">>, <<"cctv">>,
    <<"monitoring">>,
    <<"energy">>, <<"renewable">>, <<"solar">>, <<"wind">>,
    <<"environmental">>, <<"waste", "management">>, <<"recycling">>,
    <<"sustainability">> >>

\* high_weight_terms, in order (features.rs:194-198).
HIGH_WEIGHT_TERMS == <<
    <<"construction">>, <<"building">>, <<"road">>, <<"bridge">>,
    <<"civil", "engineering">>, <<"mechanical">>, <<"electrical">>,
    <<"plumbing">>, <<"hvac">>, <<"infrastructure">>, <<"excavation">>,
    <<"concrete">>, <<"steel">>, <<"demolition">>, <<"refurbishment">> >>

\* exclusion_phrases, in order (features.rs:212-218).
EXCLUSION_PHRASES == <<
    <<"ground", "investigation">>, <<"site", "investigation">>,
    <<"civil", "works">>, <<"building", "works">>,
    <<"construction", "works">>, <<"mechanical", "works">>,
    <<"electrical", "works">>, <<"infrastructure", "works">>,
    <<"road", "works">>, <<"maintenance", "works">>, <<"repair", "works">>,
    <<"cleaning", "services">>, <<"security", "services">>,
    <<"catering", "services">>, <<"transport", "services">> >>

(***************************************************************************)
(* A text being searched: its runs, and brk, the index of a run after      *)
(* which more than one whitespace character follows (0: none), so that no  *)
(* two-word pattern, whose words are joined by one space, matches across.  *)
(***************************************************************************)
\* How many terms of a list are exactly the words ws.
TermsMatching(terms, ws) ==
    Cardinality({k \in 1..Len(terms) : terms[k] = ws})

RECURSIVE CountFrom(_, _, _, _)
\* The matches that start in the runs i, i + 1, ... of rs, summed over the
\* terms of the list.  A one-word term matches each of the n words of a run
\* of its word; a two-word term matches once where a run of its first word
\* is followed, after one space, by a run of its second (the two words of
\* every two-word term differ, so its matches never overlap).
CountFrom(terms, rs, brk, i) ==
    IF i > Len(rs) THEN 0
    ELSE rs[i].n * TermsMatching(terms, << rs[i].w >>)
         + (IF i < Len(rs) /\ i # brk
            THEN TermsMatching(terms, << rs[i].w, rs[i + 1].w >>)
            ELSE 0)
         + CountFrom(terms, rs, brk, i + 1)

\* The sum over the terms of a list of pattern.find_iter(text).count().  The
\* code sums term by term; this sums the same matches position by position.
CountTerms(terms, rs, brk) == CountFrom(terms, rs, brk, 1)

\* pattern.find_iter(text).count() for one term.
CountTerm(term, rs, brk) == CountTerms(<< term >>, rs, brk)

(***************************************************************************)
(* features.rs: FeatureExtractor.                                          *)
(***************************************************************************)
\* Option<i32>
NoneInt == [some |-> FALSE, v |-> 0]
SomeInt(v) == [some |-> TRUE, v |-> v]

\* calculate_exclusion_score, in millionths.  S2 is twice the weighted match
\* count of the code (weights 2.0, 1.0 and 1.5 become 4, 2 and 3), so that
\* the density (exclusion_score / word_count) * 50.0 is 25 * S2 / wc.
\* The exclusion density per 100 words, as the comment at features.rs:223
\* says it once was, with the ceiling.
exclusion_score_per_100(rs, brk) ==
    LET word_count == WordCountRuns(rs)
        S2 == 4 * CountTerms(HIGH_WEIGHT_TERMS, rs, brk)
              + 2 * CountTerms(EXCLUSION_TERMS, rs, brk)
              + 3 * CountTerms(EXCLUSION_PHRASES, rs, brk)
    IN IF word_count = 0 THEN 0
       ELSE Min(MulDiv(50 * S2, Micro, word_count), 15 * Micro)

\* The exclusion density per 50 words scaled by 10, without the ceiling.
exclusion_density(rs, brk) ==
    LET word_count == WordCountRuns(rs)
        S2 == 4 * CountTerms(HIGH_WEIGHT_TERMS, rs, brk)
              + 2 * CountTerms(EXCLUSION_TERMS, rs, brk)
              + 3 * CountTerms(EXCLUSION_PHRASES, rs, brk)
    IN IF word_count = 0 THEN 0
       ELSE MulDiv(25 * S2, Micro, word_count)

calculate_exclusion_score(rs, brk) ==
    LET word_count == WordCountRuns(rs)
        S2 == 4 * CountTerms(HIGH_WEIGHT_TERMS, rs, brk)
              + 2 * CountTerms(EXCLUSION_TERMS, rs, brk)
              + 3 * CountTerms(EXCLUSION_PHRASES, rs, brk)
    IN IF word_count = 0 THEN 0
       ELSE Min(MulDiv(25 * S2, Micro, word_count), 15 * Micro)

\* get_term_idf_weight, times 10: the first arm whose word the pattern
\* contains decides.
get_term_idf_weight(term) ==
    CASE term = "software" -> 25
      [] term = "support" -> 20
      [] term = "computer" -> 18
      [] term = "technical" -> 15
      [] term = "services" -> 13
      [] term = "systems" -> 12
      [] OTHER -> 10

\* calculate_tfidf_features without the early return for a text of no
\* words: 0.0 / 0.0 is NaN, and NaN.min(1.0) is 1.0.
tfidf_unguarded(rs, brk) ==
    LET word_count == WordCountRuns(rs)
    IN [k \in 1..Len(KEY_TERMS) |->
          IF word_count = 0 THEN Micro
          ELSE LET matches == CountTerm(<<KEY_TERMS[k]>>, rs, brk)
                   idf == get_term_idf_weight(KEY_TERMS[k])
               IN Min(MulDiv(matches * idf, Micro, 10 * word_count), Micro)]

\* calculate_tfidf_features: one score per key term, in millionths.
calculate_tfidf_features(rs, brk) ==
    LET word_count == WordCountRuns(rs)
    IN [k \in 1..Len(KEY_TERMS) |->
          IF word_count = 0 THEN 0
          ELSE LET matches == CountTerm(<<KEY_TERMS[k]>>, rs, brk)
                   idf == get_term_idf_weight(KEY_TERMS[k])
               IN Min(MulDiv(matches * idf, Micro, 10 * word_count), Micro)]

\* CA_MAPPING (features.rs:73-87): the keys, as word sequences, in the order
\* of their ids 1..10.
CA_KEYS == <<
    <<"Health", "Service", "Executive">>, <<"Dublin", "City", "Council">>,
    <<"Cork", "City", "Council">>, <<"Galway", "City", "Council">>,
    <<"Department", "of", "Education">>, <<"Department", "of", "Health">>,
    <<"Office", "of", "Public", "Works">>,
    <<"Transport", "Infrastructure", "Ireland">>, <<"Irish", "Water">>,
    <<"Revenue", "Commissioners">> >>

\* The iteration order of the HashMap CA_MAPPING is unspecified and seeded
\* per process (std RandomState).  An order is a sequence of ids; these are
\* two of the orders a process can get.
CaOrders == { [i \in 1..Len(CA_KEYS) |-> i],
              [i \in 1..Len(CA_KEYS) |-> Len(CA_KEYS) + 1 - i] }

\* str::contains on word sequences: needle is a contiguous part of hay (the
\* empty string is contained in every string).
Contains(hay, needle) ==
    \E i \in 0..(Len(hay) - Len(needle)) :
        \A j \in 1..Len(needle) : hay[i + j] = needle[j]

\* DefaultHasher (SipHash-1-3, keys 0) of the name, % 90, for the names the
\* model uses that match no key.
HashMod90(ca) ==
    CASE ca = <<"Kerry", "County", "Council">> -> 40
      [] ca = <<"Acme", "Ltd">> -> 87

\* encode_contracting_authority
encode_contracting_authority(ca, order) ==
    LET exact == {i \in 1..Len(CA_KEYS) : CA_KEYS[i] = ca}
        partial == {k \in 1..Len(order) :
                      \/ Contains(ca, CA_KEYS[order[k]])
                      \/ Contains(CA_KEYS[order[k]], ca)}
    IN IF exact # {} THEN CHOOSE i \in exact : TRUE
       ELSE IF partial # {}
            THEN order[CHOOSE k \in partial : \A l \in partial : k <= l]
            ELSE HashMod90(ca) + 11

\* The text extract_features searches: format!("{} {}", title, content),
\* lowercased.  When the content starts with whitespace, more than one
\* whitespace character separates the title's last word from the content's
\* first.
CombinedRuns(tender) == tender.title \o tender.pdf_content.runs
CombinedBrk(tender) ==
    IF tender.pdf_content.ws > 0 THEN Len(tender.title) ELSE 0

\* extract_features: the FeatureVector.  codes_count, title_length and
\* ca_encoded are integers, the other fields are in millionths.
extract_features(tender, order) ==
    LET count == IF tender.codes_count.some THEN tender.codes_count.v ELSE 0
        combined_text == CombinedRuns(tender)
        joint == CombinedBrk(tender)
    IN [codes_count |-> count,
        has_codes |-> IF count > 0 THEN 1 ELSE 0,
        title_length |-> RunsBytes(tender.title),
        ca_encoded |->
            encode_contracting_authority(tender.contracting_authority, order),
        exclusion_score |-> calculate_exclusion_score(combined_text, joint),
        tfidf |-> calculate_tfidf_features(combined_text, joint)]

(***************************************************************************)
(* ml_predictor.rs: OptimizedBidPredictor.                                 *)
(***************************************************************************)
\* self.threshold = 0.054, in millionths.
threshold == 54000

\* self.feature_weights, in thousandths.
feature_weights == << 250, 100, 20, 30, -800, 80, 50, 30, 20, 20, 10, 10, 5,
                      3, 3 >>

\* FeatureVector::to_array (types.rs:106-124): the 15 features in order.
to_array(features) ==
    [i \in 1..15 |->
        CASE i = 1 -> features.codes_count
          [] i = 2 -> features.has_codes
          [] i = 3 -> features.title_length
          [] i = 4 -> features.ca_encoded
          [] i = 5 -> features.exclusion_score
          [] OTHER -> features.tfidf[i - 5]]

\* A normalisation that caps the exclusion score at 1.0 without dividing it
\* by 10 first.
normalize_exclusion_undivided(a) ==
    [i \in 1..15 |->
        CASE i = 1 -> Min(a[1] * (Micro \div 20), Micro)
          [] i = 2 -> a[2] * Micro
          [] i = 3 -> Min(a[3] * (Micro \div 200), Micro)
          [] i = 4 -> Min(a[4] * (Micro \div 100), Micro)
          [] i = 5 -> Min(a[5], Micro)
          [] OTHER -> a[i]]

\* normalize_features: each dimension in millionths.  f64::min caps from
\* above only: a negative codes_count stays negative.
normalize_features(a) ==
    [i \in 1..15 |->
        CASE i = 1 -> Min(a[1] * (Micro \div 20), Micro)
          [] i = 2 -> a[2] * Micro
          [] i = 3 -> Min(a[3] * (Micro \div 200), Micro)
          [] i = 4 -> Min(a[4] * (Micro \div 100), Micro)
          [] i = 5 -> Min(a[5] \div 10, Micro)
          [] OTHER -> a[i]]

RECURSIVE WeightedSum(_, _, _)
\* The sum over i in lo..hi of normalized[i] * feature_weights[i], in
\* thousandths of millionths.
WeightedSum(normalized, lo, hi) ==
    IF lo > hi THEN 0
    ELSE normalized[lo] * feature_weights[lo]
         + WeightedSum(normalized, lo + 1, hi)

\* 1 / (1 + exp(-6 s)) in millionths at s = -2.00, -1.99, ..., 1.00.
SigmoidTable == <<
    6, 7, 7, 7, 8, 8, 9, 9,
    10, 11, 11, 12, 13, 13, 14, 15,
    16, 17, 18, 19, 20, 22, 23, 24,
    26, 28, 29, 31, 33, 35, 37, 39,
    42, 44, 47, 50, 53, 57, 60, 64,
    68, 72, 76, 81, 86, 91, 97, 103,
    109, 116, 123, 131, 139, 148, 157, 167,
    177, 188, 199, 212, 225, 239, 253, 269,
    286, 303, 322, 342, 363, 386, 410, 435,
    462, 490, 521, 553, 587, 623, 662, 703,
    746, 792, 841, 893, 948, 1007, 1069, 1135,
    1205, 1280, 1359, 1442, 1531, 1626, 1726, 1833,
    1946, 2066, 2194, 2329, 2473, 2625, 2787, 2959,
    3141, 3335, 3540, 3758, 3990, 4236, 4496, 4773,
    5067, 5378, 5709, 6060, 6432, 6827, 7246, 7691,
    8163, 8663, 9194, 9757, 10354, 10987, 11658, 12370,
    13125, 13926, 14774, 15673, 16626, 17636, 18707, 19840,
    21041, 22313, 23661, 25087, 26597, 28195, 29887, 31676,
    33569, 35571, 37688, 39925, 42290, 44788, 47426, 50211,
    53151, 56253, 59524, 62973, 66608, 70437, 74468, 78710,
    83173, 87864, 92793, 97969, 103400, 109097, 115067, 121319,
    127862, 134703, 141851, 149313, 157095, 165205, 173647, 182426,
    191545, 201009, 210818, 220974, 231475, 242320, 253506, 265027,
    276878, 289050, 301535, 314320, 327393, 340740, 354344, 368188,
    382252, 396517, 410960, 425557, 440286, 455121, 470036, 485004,
    500000, 514996, 529964, 544879, 559714, 574443, 589040, 603483,
    617748, 631812, 645656, 659260, 672607, 685680, 698465, 710950,
    723122, 734973, 746494, 757680, 768525, 779026, 789182, 798991,
    808455, 817574, 826353, 834795, 842905, 850687, 858149, 865297,
    872138, 878681, 884933, 890903, 896600, 902031, 907207, 912136,
    916827, 921290, 925532, 929563, 933392, 937027, 940476, 943747,
    946849, 949789, 952574, 955212, 957710, 960075, 962312, 964429,
    966431, 968324, 970113, 971805, 973403, 974913, 976339, 977687,
    978959, 980160, 981293, 982364, 983374, 984327, 985226, 986074,
    986875, 987630, 988342, 989013, 989646, 990243, 990806, 991337,
    991837, 992309, 992754, 993173, 993568, 993940, 994291, 994622,
    994933, 995227, 995504, 995764, 996010, 996242, 996460, 996665,
    996859, 997041, 997213, 997375, 997527
    >>

\* The sigmoid of the code, 1.0 / (1.0 + (-score * 6.0).exp()), in millionths
\* for a score in millionths: the table, linearly interpolated; below the
\* table it is under 0.00001 and falls to 0, above the table it rises to 1.
\* The weighted sum returned as it is, without the sigmoid.
RawScore(score) == score

Sigmoid(score) ==
    LET lo == -2 * Micro
        step == Micro \div 100
        i == (score - lo) \div step
        r == (score - lo) % step
    IN IF score < lo THEN 0
       ELSE IF i + 1 >= Len(SigmoidTable) THEN SigmoidTable[Len(SigmoidTable)]
       ELSE SigmoidTable[i + 1]
            + ((SigmoidTable[i + 2] - SigmoidTable[i + 1]) * r) \div step

\* calculate_prediction_score
calculate_prediction_score(features) ==
    LET normalized_features == normalize_features(to_array(features))
        raw == WeightedSum(normalized_features, 1, 15) \div 1000
    IN Sigmoid(raw)

\* calculate_feature_scores, in thousandths of millionths (no rounding).
\* The range 4..14 of the code is the array indices 4 to 13, here 5 to 14.
calculate_feature_scores(features) ==
    LET normalized == normalize_features(to_array(features))
    IN [codes_count_score |-> normalized[1] * feature_weights[1],
        has_codes_score |-> normalized[2] * feature_weights[2],
        title_length_score |-> normalized[3] * feature_weights[3],
        ca_score |-> normalized[4] * feature_weights[4],
        text_features_score |-> WeightedSum(normalized, 5, 14),
        total_score |-> WeightedSum(normalized, 1, 15)]

\* format!("{:.1}", x) of a value in millionths: the number of tenths.
Fmt1(x) == (x + 50000) \div 100000
\* format!("{:.0}%", x * 100.0) of a value in millionths: the percentage.
Pct0(x) == (x + 5000) \div 10000

\* A reason of generate_reasoning: its text and its formatted number.
Reason(tag, arg) == [tag |-> tag, arg |-> arg]

\* A reasoning string: the category it starts with, the formatted exclusion
\* score of the two exclusion messages (-1: none), the reasons joined by
\* ", ", the score percentage and the adjusted threshold percentage it ends
\* with (-1: not printed).
Reasoning(category, excl, reasons, score, thr) ==
    [category |-> category, exclusion |-> excl, reasons |-> reasons,
     score_pct |-> score, threshold_pct |-> thr]

\* generate_reasoning.  The list of reasons is never empty (one of the two
\* code reasons is always pushed), so the second format is the one used.
generate_reasoning(features, score, should_bid, thr) ==
    LET e == features.exclusion_score
        r1 == IF e > 3 * Micro
              THEN << Reason("VERY HIGH EXCLUSION", Fmt1(e)) >>
              ELSE IF e > 2 * Micro
              THEN << Reason("High exclusion score", Fmt1(e)) >>
              ELSE IF e > Micro
              THEN << Reason("Medium exclusion score", Fmt1(e)) >>
              ELSE << >>
        r2 == IF features.codes_count > 0
              THEN << Reason("relevant IT codes detected",
                             features.codes_count) >>
              ELSE << Reason("No IT codes detected", 0) >>
        r3 == IF features.tfidf[1] > Micro \div 10
              THEN << Reason("Software-related terms found", 0) >>
              ELSE << >>
        r4 == IF features.tfidf[2] > Micro \div 10
              THEN << Reason("Support service terms found", 0) >>
              ELSE << >>
        r5 == IF features.title_length > 100
              THEN << Reason("Detailed title indicates complex requirements",
                             0) >>
              ELSE << >>
        category ==
            IF should_bid
            THEN IF score > 2 * (Micro \div 10) THEN "HIGH_CONFIDENCE_BID"
                 ELSE IF score > Micro \div 10 THEN "MEDIUM_CONFIDENCE_BID"
                 ELSE "LOW_CONFIDENCE_BID"
            ELSE IF e > 2 * Micro THEN "EXCLUDED_NON_IT"
                 ELSE "NO_BID_RECOMMENDED"
        threshold_info == IF thr # threshold THEN Pct0(thr) ELSE -1
    IN Reasoning(category, -1, r1 \o r2 \o r3 \o r4 \o r5, Pct0(score),
                 threshold_info)

\* Result<MLPredictionResult>
PredictErr == [ok |-> FALSE]
PredictOk(should_bid, confidence, reasoning, feature_scores) ==
    [ok |-> TRUE, should_bid |-> should_bid, confidence |-> confidence,
     reasoning |-> reasoning, feature_scores |-> feature_scores]

\* A decision that ignores the exclusion score: the threshold is never
\* raised.
base_threshold(features) == threshold

\* The threshold predict compares the score with:
\* self.threshold * (1.0 + exclusion_score * 0.5) above an exclusion score
\* of 1.0.  threshold is a whole number of thousandths.
adjusted_threshold(features) ==
    IF features.exclusion_score > Micro
    THEN ((threshold \div 1000)
            * (Micro + features.exclusion_score \div 2)) \div 1000
    ELSE threshold

\* A hard exclusion that gives way to detected codes: it applies only when
\* no relevance code was found.
HardExcludedWithoutCodes(features) ==
    features.exclusion_score > 4 * Micro /\ features.codes_count = 0

\* Level 1 of predict: exclusion_score > 4.0.
HardExcluded(features) == features.exclusion_score > 4 * Micro

\* Level 2 without the test of the codes count.
SoftExcludedAnyCodes(features) == features.exclusion_score > 2 * Micro

\* Level 2 of predict: exclusion_score > 2.0 && codes_count == 0.0.
SoftExcluded(features) ==
    features.exclusion_score > 2 * Micro /\ features.codes_count = 0

\* should_bid = prediction_score >= adjusted_threshold
Decide(prediction_score, thr) == prediction_score >= thr

\* Whether predict finds the PDF content it requires.
HasContent(tender) ==
    tender.pdf_content.some /\ ~TrimIsEmpty(tender.pdf_content)

\* predict.  order is the iteration order of CA_MAPPING in the process that
\* runs it.
predict(tender, order) ==
    IF ~HasContent(tender) THEN PredictErr
    ELSE
    LET fv == extract_features(tender, order)
    IN IF HardExcluded(fv)
       THEN PredictOk(FALSE, 0,
                Reasoning("HARD_EXCLUSION", Fmt1(fv.exclusion_score),
                          << >>, -1, -1),
                calculate_feature_scores(fv))
       ELSE IF SoftExcluded(fv)
       THEN PredictOk(FALSE, Micro \div 100,
                Reasoning("SOFT_EXCLUSION", Fmt1(fv.exclusion_score),
                          << >>, -1, -1),
                calculate_feature_scores(fv))
       ELSE LET prediction_score == calculate_prediction_score(fv)
                limit == adjusted_threshold(fv)
                bid == Decide(prediction_score, limit)
            IN PredictOk(bid, prediction_score,
                   generate_reasoning(fv, prediction_score, bid, limit),
                   calculate_feature_scores(fv))

(***************************************************************************)
(* The scoring stage: ml_bid_predictor/src/main.rs, database.rs,           *)
(* queue_handler.rs.                                                       *)
(*                                                                         *)
(* The handler is run by lambda_runtime on an SqsEvent (main.rs:116-125).  *)
(* It never deletes a message itself: the event source deletes every       *)
(* message of the batch when the invocation returns Ok, and makes the      *)
(* batch visible again when the invocation returns Err or is killed at its *)
(* deadline.  The handler's value is a plain JSON object, not a            *)
(* partial-batch response.                                                 *)
(***************************************************************************)
VARIABLES
    body,        \* body[m]: the body of scoring-queue message m
    qstate,      \* qstate[m]: "visible", "inflight" or "deleted"
    invocations, \* how many invocations of function_handler have started
    inv,         \* the running invocation of function_handler
    db,          \* db[r]: the ML columns of tender_records row r
    aiQueue,     \* the messages sent to the AI summary queue, in order
    hist,        \* hist[m]: what has happened to message m (history)
    lastReturn   \* what the latest completed invocation returned (history)

Msgs == 1..NumMsgs

\* A TenderRecord, reduced to the fields the scoring stage reads.
Tender(id, title, ca, content, codes) ==
    [resource_id |-> id, title |-> title, contracting_authority |-> ca,
     pdf_content |-> content, codes_count |-> codes]

\* Message bodies: parses = FALSE is a body serde_json::from_str rejects.
Malformed == [parses |-> FALSE, tender |-> Tender(0, << >>, << >>, NoneStr,
                                                   NoneInt)]
Parsed(t) == [parses |-> TRUE, tender |-> t]

\* The bodies the scoring queue can hold for resource id.
ScoringBodies(id) == {
    Malformed,
    \* construction works: hard exclusion
    Parsed(Tender(id, << Run("construction", 1), Run("works", 1) >>,
                  << "Kerry", "County", "Council" >>,
                  Str(0, << Run("construction", 1), Run("works", 1),
                            Run("lorem", 10) >>), SomeInt(0))),
    \* the weighted model says bid; the authority is part of three keys of
    \* CA_MAPPING
    Parsed(Tender(id, << Run("lorem", 2) >>, << "City", "Council" >>,
                  Str(0, << Run("catering", 1), Run("lorem", 30) >>),
                  SomeInt(1))),
    \* whitespace-only content: the routing-error branch
    Parsed(Tender(id, << Run("software", 1) >>, << "Irish", "Water" >>,
                  Str(1, << >>), NoneInt)) }

\* A row of tender_records before any ML write: the columns are NULL, and
\* ml_processed and ml_status have their defaults (database.rs:31-52).
NullReasoning == Reasoning("NULL", -1, << >>, -1, -1)
EmptyRow == [ml_bid |-> "NULL", ml_confidence |-> -1,
             ml_reasoning |-> NullReasoning, ml_status |-> "pending",
             ml_processed |-> FALSE]

\* The value of an f64 stored in the column ml_confidence DECIMAL(5,4)
\* (database.rs:42): rounded to four decimals.
Decimal4(c) == ((c + 50) \div 100) * 100

\* The row after update_ml_prediction_results (database.rs:113-122).
\* updated_at = NOW() is not modelled.
UpdatedRow(ml_bid, ml_confidence, ml_reasoning, ml_status) ==
    [ml_bid |-> IF ml_bid THEN "true" ELSE "false",
     ml_confidence |-> Decimal4(ml_confidence),
     ml_reasoning |-> ml_reasoning,
     ml_status |-> ml_status,
     ml_processed |-> TRUE]

\* The message with the priority the alert of queue_handler.rs:93 carries,
\* whatever the prediction.
AISummaryMessageUrgent(tender, prediction) ==
    [resource_id |-> tender.resource_id,
     tender_title |-> tender.title,
     ml_prediction |-> prediction,
     pdf_content |-> tender.pdf_content,
     priority |-> "URGENT"]

\* The message send_to_ai_summary_queue builds (queue_handler.rs:46-61);
\* the timestamp is not modelled.
AISummaryMessage(tender, prediction) ==
    [resource_id |-> tender.resource_id,
     tender_title |-> tender.title,
     ml_prediction |-> prediction,
     pdf_content |-> tender.pdf_content,
     priority |-> IF prediction.should_bid THEN "URGENT" ELSE "NORMAL"]

\* No invocation is running.
Idle == [pc |-> "idle", batch |-> << >>, idx |-> 0, order |-> << >>,
         processed_count |-> 0, error_count |-> 0,
         prediction |-> PredictErr]

\* hist[m] before anything happened.  outcome is how the latest
\* process_tender_record of m ended; writes counts the successful score
\* writes for m; first is the row after the first of them.
NoHist == [outcome |-> "none", writes |-> 0, first |-> EmptyRow]

\* lastReturn before any invocation has returned; afterwards the two counts
\* of the returned body and the batch they are about.
NoReturn == [processed |-> -1, errors |-> -1, batch |-> << >>]

scoreVars == << body, qstate, invocations, inv, db, aiQueue, hist,
                lastReturn >>

\* The scoring queue holds NumMsgs messages, nothing has been written or
\* sent, and started invocations have started before.
ScoreInitAt(started) ==
    /\ body \in { b \in [Msgs -> UNION {ScoringBodies(m) : m \in Msgs}] :
                    \A m \in Msgs : b[m] \in ScoringBodies(m) }
    /\ qstate = [m \in Msgs |-> "visible"]
    /\ invocations = started
    /\ inv = Idle
    /\ db = [m \in Msgs |-> EmptyRow]
    /\ aiQueue = << >>
    /\ hist = [m \in Msgs |-> NoHist]
    /\ lastReturn = NoReturn

ScoreInit == ScoreInitAt(0)

\* One invocation is left: the behaviours of a single batch.
BatchInit == ScoreInitAt(MaxInvocations - 1)

\* The batches the event source can hand to one invocation: the non-empty
\* sets of visible messages, each in the order of the message numbers (the
\* bodies are arbitrary, so this fixes no order of bodies).
Visible == {m \in Msgs : qstate[m] = "visible"}
Batches ==
    {b \in UNION {[1..k -> Visible] : k \in 1..Cardinality(Visible)} :
        \A i, j \in DOMAIN b : i < j => b[i] < b[j]}

InBatch(b) == {b[i] : i \in DOMAIN b}

\* The event source invokes function_handler with a batch, in a process
\* whose CA_MAPPING iterates in the order o.
Invoke(b, o) ==
    /\ inv.pc = "idle"
    /\ invocations < MaxInvocations
    /\ inv' = [Idle EXCEPT !.pc = "init", !.batch = b, !.idx = 1, !.order = o]
    /\ qstate' = [m \in Msgs |-> IF m \in InBatch(b) THEN "inflight"
                                  ELSE qstate[m]]
    /\ invocations' = invocations + 1
    /\ UNCHANGED << body, db, aiQueue, hist, lastReturn >>

\* The invocation ends without an Ok: the batch becomes visible again.
Redeliver ==
    /\ qstate' = [m \in Msgs |-> IF m \in InBatch(inv.batch) THEN "visible"
                                  ELSE qstate[m]]
    /\ inv' = Idle

\* main.rs:24-26: the predictor, the queue handler and the database are
\* set up.
InitOk ==
    /\ inv.pc = "init"
    /\ inv' = [inv EXCEPT !.pc = "parse"]
    /\ UNCHANGED << body, qstate, invocations, db, aiQueue, hist, lastReturn >>

\* main.rs:25-26: QueueHandler::new() or Database::new() fails and `?`
\* returns the error from function_handler.
InitFail ==
    /\ inv.pc = "init"
    /\ Redeliver
    /\ UNCHANGED << body, invocations, db, aiQueue, hist, lastReturn >>

\* The message process_tender_record is working on.
Current == inv.batch[inv.idx]

\* A loop that gives up on the batch at the first record that fails, as a
\* `?` on process_tender_record would: the remaining records are skipped.
AfterRecordAbort(i, outcome) ==
    [i EXCEPT !.pc = "parse",
              !.idx = IF outcome = "ok" THEN i.idx + 1 ELSE Len(i.batch) + 1,
              !.processed_count = IF outcome = "ok" THEN @ + 1 ELSE @,
              !.error_count = IF outcome = "ok" THEN @ ELSE @ + 1,
              !.prediction = PredictErr]

\* main.rs:31-42: the loop's match on the result of process_tender_record
\* for the record at idx: Ok counts as processed, Err as an error, and the
\* loop goes on to the next record.
AfterRecord(i, outcome) ==
    [i EXCEPT !.pc = "parse",
              !.idx = i.idx + 1,
              !.processed_count = IF outcome = "ok" THEN @ + 1 ELSE @,
              !.error_count = IF outcome = "ok" THEN @ ELSE @ + 1,
              !.prediction = PredictErr]

\* process_tender_record returns for the current message.
Finish(outcome) ==
    /\ inv' = AfterRecord(inv, outcome)
    /\ UNCHANGED << body, qstate, invocations, lastReturn >>

\* main.rs:64-68: the body does not parse; `?` returns the error.
ParseFail ==
    /\ inv.pc = "parse" /\ inv.idx <= Len(inv.batch)
    /\ ~body[Current].parses
    /\ Finish("parse_error")
    /\ hist' = [hist EXCEPT ![Current].outcome = "parse_error"]
    /\ UNCHANGED << db, aiQueue >>

\* main.rs:75-78: the tender has no PDF content.
NoContent ==
    /\ inv.pc = "parse" /\ inv.idx <= Len(inv.batch)
    /\ body[Current].parses
    /\ ~HasContent(body[Current].tender)
    /\ inv' = [inv EXCEPT !.pc = "write_routing_error"]
    /\ UNCHANGED << body, qstate, invocations, db, aiQueue, hist, lastReturn >>

\* main.rs:80-88: the routing error is written; Err is returned whether or
\* not the write succeeds.
RoutingErrorRow == UpdatedRow(FALSE, 0, Reasoning("ROUTING_ERROR", -1, << >>,
                                                  -1, -1), "routing_error")

WriteRoutingErrorOk ==
    /\ inv.pc = "write_routing_error"
    /\ db' = [db EXCEPT ![body[Current].tender.resource_id] = RoutingErrorRow]
    /\ Finish("routing_error")
    /\ hist' = [hist EXCEPT ![Current].outcome = "routing_error"]
    /\ UNCHANGED aiQueue

WriteRoutingErrorFail ==
    /\ inv.pc = "write_routing_error"
    /\ Finish("routing_error")
    /\ hist' = [hist EXCEPT ![Current].outcome = "routing_error"]
    /\ UNCHANGED << db, aiQueue >>

\* main.rs:92: predict.  It fails only without content, which main.rs:75
\* has excluded.
Predict ==
    /\ inv.pc = "parse" /\ inv.idx <= Len(inv.batch)
    /\ body[Current].parses
    /\ HasContent(body[Current].tender)
    /\ LET p == predict(body[Current].tender, inv.order)
       IN IF p.ok
          THEN /\ inv' = [inv EXCEPT !.pc = "write", !.prediction = p]
               /\ UNCHANGED << body, qstate, invocations, hist, lastReturn >>
          ELSE /\ Finish("predict_error")
               /\ hist' = [hist EXCEPT ![Current].outcome = "predict_error"]
    /\ UNCHANGED << db, aiQueue >>

\* The row main.rs:100-106 writes for a prediction.
ScoreRow(p) ==
    UpdatedRow(p.should_bid, p.confidence, p.reasoning,
               IF p.should_bid THEN "bid" ELSE "no-bid")

\* main.rs:100-106: update_ml_prediction_results succeeds.
WriteOk ==
    /\ inv.pc = "write"
    /\ db' = [db EXCEPT ![body[Current].tender.resource_id] =
                            ScoreRow(inv.prediction)]
    /\ inv' = [inv EXCEPT !.pc = "send"]
    /\ hist' = [hist EXCEPT ![Current].writes = @ + 1,
                            ![Current].first =
                                IF hist[Current].writes = 0
                                THEN ScoreRow(inv.prediction) ELSE @]
    /\ UNCHANGED << body, qstate, invocations, aiQueue, lastReturn >>

\* main.rs:106: update_ml_prediction_results fails; `?` returns the error.
WriteFail ==
    /\ inv.pc = "write"
    /\ Finish("write_error")
    /\ hist' = [hist EXCEPT ![Current].outcome = "write_error"]
    /\ UNCHANGED << db, aiQueue >>

\* main.rs:111-113: send_to_ai_summary_queue succeeds; Ok(()) is returned.
SendOk ==
    /\ inv.pc = "send"
    /\ aiQueue' = Append(aiQueue, AISummaryMessage(body[Current].tender,
                                                   inv.prediction))
    /\ Finish("ok")
    /\ hist' = [hist EXCEPT ![Current].outcome = "ok"]
    /\ UNCHANGED db

\* main.rs:111: send_to_ai_summary_queue fails; `?` returns the error.
SendFail ==
    /\ inv.pc = "send"
    /\ Finish("send_error")
    /\ hist' = [hist EXCEPT ![Current].outcome = "send_error"]
    /\ UNCHANGED << db, aiQueue >>

\* main.rs:44-53: after the loop function_handler returns Ok with the two
\* counts, whatever happened to the records; the event source then deletes
\* every message of the batch.
Return ==
    /\ inv.pc = "parse" /\ inv.idx > Len(inv.batch)
    /\ qstate' = [m \in Msgs |-> IF m \in InBatch(inv.batch) THEN "deleted"
                                  ELSE qstate[m]]
    /\ lastReturn' = [processed |-> inv.processed_count,
                       errors |-> inv.error_count,
                       batch |-> inv.batch]
    /\ inv' = Idle
    /\ UNCHANGED << body, invocations, db, aiQueue, hist >>

\* The invocation is killed at its deadline, wherever it is.
Timeout ==
    /\ inv.pc # "idle"
    /\ Redeliver
    /\ UNCHANGED << body, invocations, db, aiQueue, hist, lastReturn >>

\* -------------------------------------------------------------------------
\* Properties of the scoring stage.

\* The resource id of the tender in message m.
Rid(m) == body[m].tender.resource_id

\* A deep-review message for the tender of m has been emitted.
Sent(m) == \E k \in DOMAIN aiQueue : aiQueue[k].resource_id = Rid(m)

\* The event source has removed m from the scoring queue.
Acked(m) == qstate[m] = "deleted"

\* The latest process_tender_record of m got a result from predict.
Predicted(m) == hist[m].outcome \in {"write_error", "send_error", "ok"}

\* C1: a scoring message is acknowledged only after
\* update_ml_prediction_results succeeded for it: no message whose score
\* write failed is ever removed from the queue.
C1_AckOnlyAfterWrite ==
    \A m \in Msgs : Acked(m) => hist[m].outcome # "write_error"

\* C3: every tender for which predict returned a result is sent to the AI
\* summary queue: once its message has left the scoring queue, a deep-review
\* message for it exists.
C3_EveryPredictionSent ==
    \A m \in Msgs : (Acked(m) /\ Predicted(m)) => Sent(m)

\* C4: the scoring handler never partially commits: no state has a tender's
\* score persisted and its message acknowledged while no deep-review
\* message for the tender has been emitted.
C4_FailsClosed ==
    \A m \in Msgs :
        ~(/\ body[m].parses
          /\ db[Rid(m)].ml_status \in {"bid", "no-bid"}
          /\ Acked(m)
          /\ ~Sent(m))

\* C5: score persistence is idempotent: after a scoring message has been
\* processed two or more times, the persisted score fields of its tender are
\* those the first processing wrote.
C5_IdempotentWrite ==
    \A m \in Msgs : hist[m].writes >= 2 => db[Rid(m)] = hist[m].first

\* C6: a tender is scored at most once per content snapshot: the result of
\* predict is written at most once for each scoring message.
C6_ScoredOnce ==
    \A m \in Msgs : hist[m].writes <= 1

\* C7: the records of a batch succeed or fail independently: when
\* function_handler returns, every record of the batch has been processed,
\* every record that succeeded has its score row and its deep-review
\* message, and the returned counts are exactly the records that succeeded
\* and the records that failed.
C7_BatchIndependent ==
    lastReturn # NoReturn =>
        LET records == InBatch(lastReturn.batch)
            succeeded == {m \in records : hist[m].outcome = "ok"}
        IN /\ \A m \in records : hist[m].outcome # "none"
           /\ \A m \in succeeded : Sent(m) /\ db[Rid(m)].ml_processed
           /\ lastReturn.processed = Cardinality(succeeded)
           /\ lastReturn.errors = Cardinality(records \ succeeded)

\* C7's case: a returned batch whose first record failed and whose second
\* record succeeded.
C7_Witness ==
    /\ lastReturn # NoReturn
    /\ Len(lastReturn.batch) >= 2
    /\ hist[lastReturn.batch[1]].outcome \in
           {"parse_error", "routing_error", "write_error", "send_error"}
    /\ hist[lastReturn.batch[2]].outcome = "ok"
    /\ lastReturn.processed >= 1
    /\ lastReturn.errors >= 1

\* The deep-review message send_to_ai_summary_queue builds for message m
\* from the prediction p, as the specification words it.
SpecifiedMessage(m, p) ==
    [resource_id |-> Rid(m),
     tender_title |-> body[m].tender.title,
     ml_prediction |-> p,
     pdf_content |-> body[m].tender.pdf_content,
     priority |-> IF p.should_bid THEN "URGENT" ELSE "NORMAL"]

\* C22: the priority of a deep-review message is "URGENT" exactly when
\* should_bid is true and "NORMAL" otherwise, and every scored tender whose
\* handling ended well has its message on the queue, whatever should_bid
\* is: the message differs with should_bid only in the priority and in the
\* attached score.
C22_PriorityOnly ==
    /\ \A k \in DOMAIN aiQueue :
           aiQueue[k].priority =
               (IF aiQueue[k].ml_prediction.should_bid
                THEN "URGENT" ELSE "NORMAL")
    /\ \A m \in Msgs :
           hist[m].outcome = "ok" =>
               \E k \in DOMAIN aiQueue, o \in CaOrders :
                   aiQueue[k] =
                       SpecifiedMessage(m, predict(body[m].tender, o))

\* C22's case: a batch of a tender predicted as a bid and one predicted as
\* no bid has put an URGENT and a NORMAL message on the queue.
C22_Witness ==
    /\ Len(aiQueue) = 2
    /\ aiQueue[1].ml_prediction.should_bid # aiQueue[2].ml_prediction.should_bid
    /\ \E k \in DOMAIN aiQueue : aiQueue[k].priority = "URGENT"
    /\ \E k \in DOMAIN aiQueue : aiQueue[k].priority = "NORMAL"

\* C24: a message whose body does not parse into a TenderRecord causes no
\* database write and no outbound message and is not acknowledged as
\* processed: it stays on the queue to be retried and then dead-lettered.
C24_MalformedNotAcked ==
    \A m \in Msgs :
        ~body[m].parses =>
            /\ hist[m].writes = 0
            /\ ~Sent(m)
            /\ ~Acked(m)

(***************************************************************************)
(* Concurrent invocations of the scoring handler.  The event source runs   *)
(* one invocation per message at the same time, each in its own process    *)
(* with its own predictor, queue handler and connection pool                *)
(* (main.rs:24-26); they share the table tender_records and the AI summary *)
(* queue.  The steps of process_tender_record interleave freely.           *)
(***************************************************************************)
VARIABLES
    workers  \* workers[m]: the invocation that handles message m

\* An invocation that has not started on its message, in a process whose
\* CA_MAPPING iterates in the order o.
WorkerAt(o) == [pc |-> "parse", order |-> o, prediction |-> PredictErr]

concVars == << workers >>

ConcInit ==
    /\ ScoreInitAt(MaxInvocations)
    /\ workers \in [Msgs -> {WorkerAt(o) : o \in CaOrders}]

\* Every row of the table.
AllRows(resource_id) == Msgs

\* database.rs:113-122: the rows the UPDATE changes,
\* WHERE resource_id = $5.
RowsUpdated(resource_id) == {resource_id}

\* The table after update_ml_prediction_results(resource_id, ...).
Updated(resource_id, row) ==
    [r \in DOMAIN db |-> IF r \in RowsUpdated(resource_id) THEN row
                         ELSE db[r]]

\* main.rs:68: the body does not parse.
ConcParseFail(m) ==
    /\ workers[m].pc = "parse"
    /\ ~body[m].parses
    /\ workers' = [workers EXCEPT ![m].pc = "failed"]
    /\ UNCHANGED << db, aiQueue >>

\* main.rs:75-88: no content; the routing error is written, or the write
\* fails, and Err is returned.
ConcNoContent(m, written) ==
    /\ workers[m].pc = "parse"
    /\ body[m].parses
    /\ ~HasContent(body[m].tender)
    /\ db' = IF written
             THEN Updated(body[m].tender.resource_id, RoutingErrorRow)
             ELSE db
    /\ workers' = [workers EXCEPT ![m].pc = "failed"]
    /\ UNCHANGED aiQueue

\* main.rs:92: predict.
ConcPredict(m) ==
    /\ workers[m].pc = "parse"
    /\ body[m].parses
    /\ HasContent(body[m].tender)
    /\ workers' = [workers EXCEPT
                     ![m].pc = "write",
                     ![m].prediction = predict(body[m].tender,
                                               workers[m].order)]
    /\ UNCHANGED << db, aiQueue >>

\* main.rs:100-106: update_ml_prediction_results succeeds or fails.
ConcWrite(m, written) ==
    /\ workers[m].pc = "write"
    /\ db' = IF written
             THEN Updated(body[m].tender.resource_id,
                          ScoreRow(workers[m].prediction))
             ELSE db
    /\ workers' = [workers EXCEPT ![m].pc = IF written THEN "send"
                                            ELSE "failed"]
    /\ UNCHANGED aiQueue

\* main.rs:111-113: send_to_ai_summary_queue succeeds or fails.
ConcSend(m, sent) ==
    /\ workers[m].pc = "send"
    /\ aiQueue' = IF sent
                  THEN Append(aiQueue,
                              AISummaryMessage(body[m].tender,
                                               workers[m].prediction))
                  ELSE aiQueue
    /\ workers' = [workers EXCEPT ![m].pc = IF sent THEN "done"
                                            ELSE "failed"]
    /\ UNCHANGED db

\* What the invocation of m gets from predict when it runs alone.
Alone(m) == predict(body[m].tender, workers[m].order)

\* The deep-review messages for the tender of m.
MessagesFor(m) == {k \in DOMAIN aiQueue : aiQueue[k].resource_id = Rid(m)}

\* C25: concurrent invocations do not interfere.  When messages of
\* different tenders are handled at the same time, in any interleaving of
\* the predict, write and send steps, a tender whose handling is complete
\* has the row and the one message it has when handled alone, and a tender
\* whose score is not written yet has an untouched row.
C25_NoInterference ==
    \A m \in Msgs :
        /\ workers[m].pc \in {"send", "done"} =>
               db[Rid(m)] = ScoreRow(Alone(m))
        /\ workers[m].pc = "done" =>
               /\ Cardinality(MessagesFor(m)) = 1
               /\ \A k \in MessagesFor(m) :
                      aiQueue[k] = AISummaryMessage(body[m].tender, Alone(m))
        /\ (body[m].parses /\ workers[m].pc \in {"parse", "write"}) =>
               db[Rid(m)] = EmptyRow

\* C25's case: both invocations are complete, the message of the second
\* tender was sent before that of the first, and the two tenders have
\* different rows.
C25_Witness ==
    /\ workers[1].pc = "done" /\ workers[2].pc = "done"
    /\ Len(aiQueue) = 2
    /\ aiQueue[1].resource_id = Rid(2)
    /\ aiQueue[2].resource_id = Rid(1)
    /\ db[Rid(1)] # db[Rid(2)]

(***************************************************************************)
(* predict as a function of its input: ml_predictor.rs:65-148 applied to   *)
(* one TenderRecord in a process with one iteration order of CA_MAPPING.   *)
(***************************************************************************)
VARIABLES
    input,   \* the TenderRecord predict is called on, and the process's order
    result,  \* what predict returned; NotCalled before the call
    features \* what extract_features returned; NotExtracted before the call

\* Titles: empty, two words, twelve words, two key terms, and an exclusion
\* phrase.
PredictTitles == { << >>, << Run("lorem", 2) >>, << Run("lorem", 12) >>,
                   << Run("software", 1), Run("support", 1) >>,
                   << Run("catering", 1), Run("services", 1) >>,
                   << Run("technical", 1), Run("support", 1) >> }

\* Authorities: one that is part of several keys of CA_MAPPING and one that
\* matches no key.
PredictAuthorities == { << "City", "Council" >>, << "Acme", "Ltd" >> }

\* codes_count is an Option<i32> read from the message body (types.rs);
\* nothing checks its sign.
PredictCodes == { NoneInt, SomeInt(0), SomeInt(1), SomeInt(0 - 20) }

\* The runs of words contents are made of.
PredictRuns == { Run(w, n) : w \in {"catering", "construction", "lorem",
                                    "software"},
                             n \in {1, 20} }

\* Contents: absent, empty, whitespace only, and up to MaxRuns runs of words.
PredictContents ==
    { NoneStr, Str(0, << >>), Str(1, << >>) } \cup
    { Str(0, rs) : rs \in UNION { [1..k -> PredictRuns] : k \in 1..MaxRuns } }

NotCalled == [ok |-> FALSE, called |-> FALSE]

NotExtracted == [extracted |-> FALSE]

predictVars == << input, result, features >>

PredictInit ==
    /\ input \in { [tender |-> Tender(1, t, ca, c, n), order |-> o] :
                     t \in PredictTitles, ca \in PredictAuthorities,
                     c \in PredictContents, n \in PredictCodes,
                     o \in CaOrders }
    /\ result = NotCalled
    /\ features = NotExtracted

\* main.rs:92: predictor.predict(&tender_record)
CallPredict ==
    /\ result = NotCalled
    /\ result' = [called |-> TRUE] @@ predict(input.tender, input.order)
    /\ UNCHANGED << input, features >>

\* features.rs:112: extractor.extract_features(&tender), called on its own
\* as the tests of features.rs and ml_predictor.rs call it.
CallExtractFeatures ==
    /\ features = NotExtracted
    /\ features' = [extracted |-> TRUE]
                    @@ extract_features(input.tender, input.order)
    /\ UNCHANGED << input, result >>

\* The feature vector and the exclusion score of the input.
InputFeatures == extract_features(input.tender, input.order)
InputExclusion ==
    calculate_exclusion_score(CombinedRuns(input.tender),
                              CombinedBrk(input.tender))
InputCodes ==
    IF input.tender.codes_count.some THEN input.tender.codes_count.v ELSE 0

\* predict has returned a result for the input.
Returned == result.called /\ result.ok

\* C9: hard exclusion.  For every tender with content whose exclusion score
\* is above 4.0, predict returns should_bid = false and confidence exactly
\* 0.0, whatever the other features are, with the hard-exclusion reasoning
\* and not that of the weighted model.
C9_HardExclusion ==
    (Returned /\ InputExclusion > 4 * Micro) =>
        /\ result.should_bid = FALSE
        /\ result.confidence = 0
        /\ result.reasoning.category = "HARD_EXCLUSION"

\* C9's case: a hard-excluded tender whose other features speak for a bid
\* (a code detected, key terms in the title).
C9_Witness ==
    /\ Returned
    /\ InputExclusion > 4 * Micro
    /\ InputCodes > 0
    /\ InputFeatures.tfidf[1] > 0
    /\ result.confidence = 0

\* The threshold the decision is specified to use:
\* 0.054 * (1 + exclusion_score * 0.5) above an exclusion score of 1.0.
EffectiveThreshold(exclusion_score) ==
    IF exclusion_score > Micro
    THEN (54 * (Micro + exclusion_score \div 2)) \div 1000
    ELSE 54 * 1000

\* Neither exclusion short-circuit applies to the input.
NoShortCircuit ==
    /\ InputExclusion <= 4 * Micro
    /\ ~(InputExclusion > 2 * Micro /\ InputCodes = 0)

\* C10: when no exclusion short-circuit applies, should_bid is
\* confidence >= effective threshold, the effective threshold being
\* 0.054 * (1 + exclusion_score * 0.5) above an exclusion score of 1.0 and
\* 0.054 otherwise; above 1.0 it is strictly higher than the threshold of
\* an input that differs only in having an exclusion score not above 1.0.
C10_ThresholdDecision ==
    (Returned /\ NoShortCircuit) =>
        /\ result.should_bid =
               (result.confidence >= EffectiveThreshold(InputExclusion))
        /\ InputExclusion > Micro =>
               \A e \in {0, Micro \div 2, Micro} :
                   EffectiveThreshold(InputExclusion) > EffectiveThreshold(e)

\* C10's case: an exclusion score above 1.0 and a confidence that reaches
\* 0.054 but not the raised threshold, so the tender is not bid for.
C10_Witness ==
    /\ Returned /\ NoShortCircuit
    /\ InputExclusion > Micro
    /\ result.confidence >= 54 * 1000
    /\ result.confidence < EffectiveThreshold(InputExclusion)
    /\ result.should_bid = FALSE

\* C28: for every tender with content and a relevance-code count >= 0, if
\* neither exclusion short-circuit applies, the confidence of the weighted
\* model is at or above the adjusted threshold and predict returns
\* should_bid = true; so with such a count, should_bid = false comes only
\* from the hard and the soft exclusion short-circuit.
C28_WeightedModelAlwaysBids ==
    /\ (Returned /\ InputCodes >= 0 /\ NoShortCircuit) =>
           /\ result.confidence >= adjusted_threshold(InputFeatures)
           /\ result.should_bid = TRUE
    /\ (Returned /\ InputCodes >= 0 /\ result.should_bid = FALSE) =>
           result.reasoning.category \in {"HARD_EXCLUSION", "SOFT_EXCLUSION"}

\* C28's case: a tender with a detected code in the soft band, so that the
\* threshold is raised above twice 0.054 and the weighted sum is negative,
\* is still bid for.
C28_Witness ==
    /\ Returned /\ NoShortCircuit
    /\ InputCodes >= 0
    /\ InputExclusion > 2 * Micro
    /\ adjusted_threshold(InputFeatures) > 2 * threshold
    /\ result.confidence < Micro \div 2
    /\ result.should_bid = TRUE

\* C33: in every result predict returns, the breakdown by group adds up to
\* its total: codes_count_score + has_codes_score + title_length_score +
\* ca_score + text_features_score = total_score, every one of the 15
\* weighted dimensions being counted in exactly one group.
C33_BreakdownAddsUp ==
    Returned =>
        result.feature_scores.codes_count_score
          + result.feature_scores.has_codes_score
          + result.feature_scores.title_length_score
          + result.feature_scores.ca_score
          + result.feature_scores.text_features_score
            = result.feature_scores.total_score

\* The exclusion score of the input lies in the soft band, above 2.0 and
\* not above 4.0.
SoftBand == InputExclusion > 2 * Micro /\ InputExclusion <= 4 * Micro

\* C11: soft exclusion.  For every tender whose exclusion score is above 2.0
\* and not above 4.0 and whose codes count is zero, predict returns
\* should_bid = false and confidence exactly 0.01; with the same exclusion
\* score and a codes count above zero the short-circuit does not apply and
\* the confidence is that of the weighted model.
C11_SoftExclusion ==
    (Returned /\ SoftBand) =>
        /\ InputCodes = 0 =>
               /\ result.should_bid = FALSE
               /\ result.confidence = Micro \div 100
               /\ result.reasoning.category = "SOFT_EXCLUSION"
        /\ InputCodes > 0 =>
               /\ result.reasoning.category # "SOFT_EXCLUSION"
               /\ result.confidence = calculate_prediction_score(InputFeatures)

\* C11's case: a tender in the soft band with no codes, whose title holds
\* key terms, is answered with confidence 0.01.
C11_Witness ==
    /\ Returned /\ SoftBand
    /\ InputCodes = 0
    /\ InputFeatures.tfidf[1] > 0
    /\ result.should_bid = FALSE
    /\ result.confidence = Micro \div 100

\* C12: scoring is deterministic.  Whatever process runs it, that is
\* whatever the iteration order of CA_MAPPING in that process, feature
\* extraction and predict on the same tender return the same feature vector
\* and the same result, for every contracting-authority string.
C12_Deterministic ==
    result.called =>
        \A o \in CaOrders :
            /\ extract_features(input.tender, o) = InputFeatures
            /\ ([called |-> TRUE] @@ predict(input.tender, o)) = result

\* The codes count of an Option<i32>, as extract_features reads it.
CodesOf(n) == IF n.some THEN n.v ELSE 0

\* C13: monotonicity.  For any two tenders that differ only in the codes
\* count, predict never gives the one with the larger count a lower
\* confidence, whichever of the three decision levels answers.
C13_Monotone ==
    Returned =>
        \A n \in PredictCodes :
            CodesOf(n) > InputCodes =>
                LET more == predict([input.tender EXCEPT !.codes_count = n],
                                    input.order)
                IN more.ok /\ more.confidence >= result.confidence

\* C14: whenever predict returns a result, its confidence is a number in
\* the closed interval [0, 1].
C14_ConfidenceInUnitInterval ==
    Returned => (result.confidence >= 0 /\ result.confidence <= Micro)

\* C14's case: the weighted model answers for a tender whose weighted sum
\* is negative, and the confidence is still between 0 and 1.
C14_Witness ==
    /\ Returned /\ NoShortCircuit
    /\ result.feature_scores.total_score < 0
    /\ result.confidence > 0
    /\ result.confidence < Micro \div 2

\* extract_features has returned the feature vector of the input.
Extracted == features.extracted

\* The number of words of the text extract_features scores: the title, a
\* space and the content.
InputWords == WordCountRuns(CombinedRuns(input.tender))

\* C15: the exclusion score calculate_exclusion_score returns is never
\* negative and never above the ceiling 15.0, however many exclusion terms
\* and phrases the text holds and however short the text is.
C15_ExclusionScoreBounded ==
    Extracted =>
        (features.exclusion_score >= 0 /\ features.exclusion_score <= 15 * Micro)

\* C15's case: a text of one word that is an exclusion term, whose density
\* is far above the ceiling, scores exactly 15.0.
C15_Witness ==
    /\ Extracted
    /\ InputWords = 1
    /\ exclusion_density(CombinedRuns(input.tender), CombinedBrk(input.tender))
           > 15 * Micro
    /\ features.exclusion_score = 15 * Micro

\* C16: for every TenderRecord a message can carry, whatever the optional
\* i32 codes count, the title, the authority and the content, every field of
\* the feature vector extract_features returns is a non-negative number and
\* every term-frequency score is at most 1.0.
C16_FeatureVectorInRange ==
    Extracted =>
        /\ features.codes_count >= 0
        /\ features.has_codes >= 0
        /\ features.title_length >= 0
        /\ features.ca_encoded >= 0
        /\ features.exclusion_score >= 0
        /\ \A k \in 1..Len(KEY_TERMS) :
               features.tfidf[k] >= 0 /\ features.tfidf[k] <= Micro

\* C17: scoring a tender whose title and content are both empty gives a
\* result and not an error: a confidence that is a number, an exclusion
\* score of 0 and should_bid = false.
C17_EmptyTenderScored ==
    (result.called /\ input.tender.title = << >> /\ ~HasContent(input.tender))
        => /\ result.ok
           /\ result.confidence >= 0 /\ result.confidence <= Micro
           /\ InputExclusion = 0
           /\ result.should_bid = FALSE

\* The content of the input is absent or the empty string.
ContentEmptyOrAbsent ==
    \/ ~input.tender.pdf_content.some
    \/ input.tender.pdf_content = Str(0, << >>)

\* C18: for every tender whose content is empty or absent, whatever its
\* title, the term-frequency scores extract_features returns are all zero
\* and the exclusion score is zero.
C18_EmptyContentZeroText ==
    (Extracted /\ ContentEmptyOrAbsent) =>
        /\ \A k \in 1..Len(KEY_TERMS) : features.tfidf[k] = 0
        /\ features.exclusion_score = 0

\* C19: for every text of no words, the empty string or whitespace only,
\* calculate_tfidf_features returns exactly one 0.0 per key term and
\* calculate_exclusion_score returns 0.0.
C19_ZeroWordsZeroScores ==
    (Extracted /\ InputWords = 0) =>
        /\ DOMAIN features.tfidf = 1..Len(KEY_TERMS)
        /\ \A k \in 1..Len(KEY_TERMS) : features.tfidf[k] = 0
        /\ features.exclusion_score = 0

\* C19's case: a tender with an empty title and a content of whitespace
\* only, so the text scored has no words, has been scored with zeros.
C19_Witness ==
    /\ Extracted
    /\ input.tender.title = << >>
    /\ input.tender.pdf_content = Str(1, << >>)
    /\ InputWords = 0
    /\ features.tfidf[1] = 0
    /\ features.exclusion_score = 0

\* C20: authority encoding.  A name that equals a key of CA_MAPPING is
\* encoded as the id of that key, 1 to 10; every other name is encoded in the
\* range 11 to 100 and so never gets the id of a curated authority.
C20_AuthorityEncoding ==
    Extracted =>
        LET ca == input.tender.contracting_authority
            exact == {i \in 1..Len(CA_KEYS) : CA_KEYS[i] = ca}
        IN IF exact # {}
           THEN features.ca_encoded \in exact
           ELSE features.ca_encoded \in 11..100

\* The terms of a table, as a set.
TermSet(terms) == {terms[k] : k \in 1..Len(terms)}

\* Twice the weight the specification gives the occurrence of the words ws:
\* 2 for a high-weight term, 1 for a baseline term, 1.5 for a phrase.  A
\* term of both tables, such as "construction", counts in both.
Weight2(ws) ==
    (IF ws \in TermSet(HIGH_WEIGHT_TERMS) THEN 4 ELSE 0)
    + (IF ws \in TermSet(EXCLUSION_TERMS) THEN 2 ELSE 0)
    + (IF ws \in TermSet(EXCLUSION_PHRASES) THEN 3 ELSE 0)

RECURSIVE WeightedMatches2(_, _, _)
\* Twice S: the weights of the occurrences that start in the runs i, i + 1,
\* ... of the text.
WeightedMatches2(rs, brk, i) ==
    IF i > Len(rs) THEN 0
    ELSE rs[i].n * Weight2(<< rs[i].w >>)
         + (IF i < Len(rs) /\ i # brk
            THEN Weight2(<< rs[i].w, rs[i + 1].w >>)
            ELSE 0)
         + WeightedMatches2(rs, brk, i + 1)

\* min(15.0, 50 * S / word_count) for the text of the input.
SpecifiedExclusion ==
    Min(15 * Micro,
        MulDiv(25 * WeightedMatches2(CombinedRuns(input.tender),
                                     CombinedBrk(input.tender), 1),
               Micro, InputWords))

\* C21: for every text of at least one word the exclusion score is
\* min(15.0, 50 * S / word_count), S counting every occurrence of a
\* high-weight term with weight 2, of a baseline term with weight 1 and of
\* a compound phrase with weight 1.5.
C21_ExclusionFormula ==
    (Extracted /\ InputWords >= 1) =>
        features.exclusion_score = SpecifiedExclusion

\* C21's case: a text holding a high-weight term, baseline terms and a
\* phrase, whose score stays under the ceiling.
C21_Witness ==
    /\ Extracted
    /\ CountTerms(HIGH_WEIGHT_TERMS, CombinedRuns(input.tender),
                  CombinedBrk(input.tender)) > 0
    /\ CountTerms(EXCLUSION_PHRASES, CombinedRuns(input.tender),
                  CombinedBrk(input.tender)) > 0
    /\ features.exclusion_score > 0
    /\ features.exclusion_score < 15 * Micro

\* The feature conditions of the specification that hold for the input, in
\* their fixed order: exclusion band, codes present, software term score
\* above 0.1, support term score above 0.1, title longer than 100.
ConditionsHolding ==
    LET f == InputFeatures
    IN (IF f.exclusion_score > 3 * Micro THEN << "VERY HIGH EXCLUSION" >>
        ELSE IF f.exclusion_score > 2 * Micro
        THEN << "High exclusion score" >>
        ELSE IF f.exclusion_score > Micro
        THEN << "Medium exclusion score" >>
        ELSE << >>)
       \o (IF f.codes_count > 0 THEN << "relevant IT codes detected" >>
           ELSE << "No IT codes detected" >>)
       \o (IF f.tfidf[1] > Micro \div 10
           THEN << "Software-related terms found" >> ELSE << >>)
       \o (IF f.tfidf[2] > Micro \div 10
           THEN << "Support service terms found" >> ELSE << >>)
       \o (IF f.title_length > 100
           THEN << "Detailed title indicates complex requirements" >>
           ELSE << >>)

\* The reasons a reasoning string lists, without their numbers.
ReasonTags(reasoning) ==
    [k \in DOMAIN reasoning.reasons |-> reasoning.reasons[k].tag]

\* C26: the reasoning string of every result lists the feature conditions
\* that hold, in the fixed order, and ends with the score and with the
\* threshold that was applied.
C26_ReasoningAudit ==
    Returned =>
        /\ ReasonTags(result.reasoning) = ConditionsHolding
        /\ result.reasoning.score_pct = Pct0(result.confidence)
        /\ result.reasoning.threshold_pct =
               Pct0(EffectiveThreshold(InputExclusion))

(***************************************************************************)
(* Content acquisition: pdf_processing/src/main.rs and lib.rs.             *)
(*                                                                         *)
(* The handler is run by lambda_runtime on an SqsEvent (main.rs:529-541)   *)
(* and returns a Response, which is not a partial-batch response: when the *)
(* invocation returns Ok, whatever the Response says, the event source     *)
(* deletes every message of the event; when it returns Err or is killed at *)
(* its deadline, the messages still on the queue become visible again.     *)
(* After a successful store the handler also deletes its message itself.   *)
(***************************************************************************)
VARIABLES
    pdfBody,        \* pdfBody[m]: the body of PDF-queue message m, and the
                    \* text of the document behind its URL
    pdfQueue,       \* pdfQueue[m]: "visible", "inflight" or "deleted"
    pdfInvocations, \* how many invocations of function_handler have started
    pdfInv,         \* the running invocation of function_handler
    pdf_content,    \* pdf_content[r]: row r of the table pdf_content
    mlQueue,        \* the messages sent to the ML prediction queue, in order
    summaryQueue,   \* the messages sent to the AI summary queue, in order
    pdfHist         \* pdfHist[m]: what has happened to message m (history)

\* let min_pdf_threshold = 100
min_pdf_threshold == 100

\* The lines of codes.txt, each split at its commas: a code number and a
\* description.
CodesFile == << << <<"72000000">>, <<"software", "services">> >> >>

\* load_codes_from_s3: of each line, the part before the first comma,
\* trimmed, when it is not empty.  An entry is the sequence of its
\* comma-separated parts.
load_codes_from_s3 ==
    [i \in 1..Len(CodesFile) |-> << CodesFile[i][1] >>]

\* text.contains(part) for a part made of whole words of the vocabulary.
TextContains(text, part) == CountTerm(part, text.runs, 0) > 0

\* extract_codes
ExtractTest(text, code) ==
    /\ Len(code) = 2
    /\ TextContains(text, code[1]) \/ TextContains(text, code[2])
extract_codes(text, codes) ==
    SelectSeq(codes, LAMBDA code : ExtractTest(text, code))

\* The TenderRecord of pdf_processing, reduced to the fields the stages
\* read.  pdf_url is "" or "url"; detected_codes and processing_stage are
\* None in a message from the harvester.
NoneSeq == [some |-> FALSE, v |-> << >>]
SomeSeq(v) == [some |-> TRUE, v |-> v]
PdfTender(id, url) ==
    [resource_id |-> id, title |-> << Run("software", 1) >>,
     contracting_authority |-> << "Irish", "Water" >>, pdf_url |-> url,
     pdf_content |-> NoneStr, detected_codes |-> NoneSeq,
     codes_count |-> NoneInt, processing_stage |-> "None"]

\* The documents a URL can lead to, as the text extract_text_from_pdf gets
\* from them: a stub of 17 bytes; 8 Irish words, 95 characters in 103
\* bytes; a text of 128 bytes that names a code.
StubText == Str(0, << Run("lorem", 3) >>)
IrishText == Str(0, << Run("tairiscinti", 8) >>)
LongText == Str(1, << Run("72000000", 1), Run("lorem", 20) >>)

\* The bodies the PDF queue can hold for resource id.
PdfBodies(id) ==
    { [parses |-> FALSE, tender |-> PdfTender(0, ""), doc |-> NoneStr],
      [parses |-> TRUE, tender |-> PdfTender(id, ""), doc |-> NoneStr] }
    \cup { [parses |-> TRUE, tender |-> PdfTender(id, "url"), doc |-> d] :
             d \in {StubText, IrishText, LongText} }

\* forward_to_ml_prediction: the message body sent to the ML queue.
forward_to_ml_prediction(tender_record) ==
    [tender_record EXCEPT !.processing_stage = "ml_prediction"]

\* forward_to_ai_summary: the message body sent to the AI summary queue; the
\* timestamp is not modelled.
TitleOnlyPrediction ==
    PredictOk(FALSE, 0,
              Reasoning("Title-only analysis - no PDF content available",
                        -1, << >>, -1, -1),
              [codes_count_score |-> 0, has_codes_score |-> 0,
               title_length_score |-> 0, ca_score |-> 0,
               text_features_score |-> 0, total_score |-> 0])
forward_to_ai_summary(tender_record) ==
    [resource_id |-> tender_record.resource_id,
     tender_title |-> tender_record.title,
     ml_prediction |-> TitleOnlyPrediction,
     pdf_content |-> IF tender_record.pdf_content.some
                     THEN tender_record.pdf_content ELSE Str(0, << >>),
     priority |-> "NORMAL"]

\* No invocation is running.
PdfIdle == [pc |-> "idle", batch |-> << >>,
            tender_record |-> PdfTender(0, ""), pdf_text |-> NoneStr,
            detected_codes |-> << >>]

\* pdfHist[m] before anything happened.  outcome is how the latest handling
\* of m ended; stage is the processing_stage the handler last gave the
\* record; sent is whether a forward of the record has succeeded.
NoPdfHist == [outcome |-> "none", stage |-> "None", sent |-> FALSE]

\* A row of pdf_content that does not exist.
NoRow == [exists |-> FALSE]

pdfVars == << pdfBody, pdfQueue, pdfInvocations, pdfInv, pdf_content,
              mlQueue, summaryQueue, pdfHist >>

PdfInit ==
    /\ pdfBody \in { b \in [Msgs -> UNION {PdfBodies(m) : m \in Msgs}] :
                       \A m \in Msgs : b[m] \in PdfBodies(m) }
    /\ pdfQueue = [m \in Msgs |-> "visible"]
    /\ pdfInvocations = 0
    /\ pdfInv = PdfIdle
    /\ pdf_content = [m \in Msgs |-> NoRow]
    /\ mlQueue = << >>
    /\ summaryQueue = << >>
    /\ pdfHist = [m \in Msgs |-> NoPdfHist]

\* The events the event source can hand to one invocation: like Batches.
PdfVisible == {m \in Msgs : pdfQueue[m] = "visible"}
PdfBatches ==
    {b \in UNION {[1..k -> PdfVisible] : k \in 1..Cardinality(PdfVisible)} :
        \A i, j \in DOMAIN b : i < j => b[i] < b[j]}

\* The event source invokes function_handler with an event.
PdfInvoke(b) ==
    /\ pdfInv.pc = "idle"
    /\ pdfInvocations < MaxInvocations
    /\ pdfInv' = [PdfIdle EXCEPT !.pc = "start", !.batch = b]
    /\ pdfQueue' = [m \in Msgs |-> IF m \in InBatch(b) THEN "inflight"
                                    ELSE pdfQueue[m]]
    /\ pdfInvocations' = pdfInvocations + 1
    /\ UNCHANGED << pdfBody, pdf_content, mlQueue, summaryQueue, pdfHist >>

\* main.rs:72: the handler works on sqs_records[0] only.
sqs_message == pdfInv.batch[1]

\* The invocation ends without an Ok: the messages of the event that are
\* still on the queue become visible again.
PdfRedeliver ==
    /\ pdfQueue' = [m \in Msgs |->
                      IF m \in InBatch(pdfInv.batch) /\ pdfQueue[m] = "inflight"
                      THEN "visible" ELSE pdfQueue[m]]
    /\ pdfInv' = PdfIdle

\* The handler reaches a `return Ok(Response ...)` or its final Ok.
PdfEnd(outcome, stage, sent) ==
    /\ pdfInv' = [pdfInv EXCEPT !.pc = "return_ok"]
    /\ pdfHist' = [pdfHist EXCEPT ![sqs_message] =
                      [outcome |-> outcome,
                       stage |-> IF stage = "None" THEN @.stage ELSE stage,
                       sent |-> @.sent \/ sent]]
    /\ UNCHANGED << pdfBody, pdfQueue, pdfInvocations >>

\* main.rs:93-108: the body does not parse; Ok(Response {success: false}).
PdfParseFail ==
    /\ pdfInv.pc = "start"
    /\ ~pdfBody[sqs_message].parses
    /\ PdfEnd("parse_error", "None", FALSE)
    /\ UNCHANGED << pdf_content, mlQueue, summaryQueue >>

\* main.rs:119-122: the record as forwarded when there is no PDF URL.
NoUrlRecord(tender_record) ==
    [tender_record EXCEPT !.pdf_content = Str(0, << >>),
                          !.detected_codes = SomeSeq(<< >>),
                          !.codes_count = SomeInt(0),
                          !.processing_stage = "ai_summary_title_only"]

\* main.rs:116-141: no PDF URL; the record goes to the AI summary queue for
\* title-only analysis, and Ok is returned whether or not the send succeeds.
PdfNoUrl(sent) ==
    /\ pdfInv.pc = "start"
    /\ pdfBody[sqs_message].parses
    /\ pdfBody[sqs_message].tender.pdf_url = ""
    /\ LET record == NoUrlRecord(pdfBody[sqs_message].tender)
       IN /\ summaryQueue' = IF sent
                             THEN Append(summaryQueue,
                                         forward_to_ai_summary(record))
                             ELSE summaryQueue
          /\ PdfEnd("no_url", record.processing_stage, sent)
    /\ UNCHANGED << pdf_content, mlQueue >>

\* main.rs:145-148, 167-172, 180: the HTTP client cannot be built, the
\* database connection fails, or the body of the download cannot be read;
\* `?` returns the error from function_handler.
PdfErr ==
    /\ pdfInv.pc = "start"
    /\ pdfBody[sqs_message].parses
    /\ pdfBody[sqs_message].tender.pdf_url # ""
    /\ PdfRedeliver
    /\ UNCHANGED << pdfBody, pdfInvocations, pdf_content, mlQueue,
                    summaryQueue, pdfHist >>

\* main.rs:153-165, 176-201, 205-218, 223-236, 247-255: DATABASE_URL is not
\* set, the download fails, the text cannot be extracted, the codes cannot
\* be loaded, or the table cannot be created; Ok(Response {success: false}).
PdfFetchFail ==
    /\ pdfInv.pc = "start"
    /\ pdfBody[sqs_message].parses
    /\ pdfBody[sqs_message].tender.pdf_url # ""
    /\ PdfEnd("fetch_error", "None", FALSE)
    /\ UNCHANGED << pdf_content, mlQueue, summaryQueue >>

\* main.rs:145-255: the document is downloaded, its text extracted and the
\* codes detected in it.
PdfFetched ==
    /\ pdfInv.pc = "start"
    /\ pdfBody[sqs_message].parses
    /\ pdfBody[sqs_message].tender.pdf_url # ""
    /\ pdfInv' = [pdfInv EXCEPT
                    !.pc = "store",
                    !.tender_record = pdfBody[sqs_message].tender,
                    !.pdf_text = pdfBody[sqs_message].doc,
                    !.detected_codes =
                        extract_codes(pdfBody[sqs_message].doc,
                                      load_codes_from_s3)]
    /\ UNCHANGED << pdfBody, pdfQueue, pdfInvocations, pdf_content, mlQueue,
                    summaryQueue, pdfHist >>

\* store_pdf_content_with_codes: the row it inserts or overwrites.
StoredRow(pdf_text, detected_codes) ==
    [exists |-> TRUE, pdf_text |-> pdf_text,
     processing_status |-> "COMPLETED", detected_codes |-> detected_codes,
     codes_count |-> Len(detected_codes)]

\* main.rs:259-262: store_pdf_content_with_codes succeeds.
PdfStoreOk ==
    /\ pdfInv.pc = "store"
    /\ pdf_content' = [pdf_content EXCEPT
                         ![pdfInv.tender_record.resource_id] =
                             StoredRow(pdfInv.pdf_text,
                                       pdfInv.detected_codes)]
    /\ pdfInv' = [pdfInv EXCEPT !.pc = "delete"]
    /\ pdfHist' = [pdfHist EXCEPT ![sqs_message].outcome = "stored"]
    /\ UNCHANGED << pdfBody, pdfQueue, pdfInvocations, mlQueue,
                    summaryQueue >>

\* main.rs:326-339: store_pdf_content_with_codes fails;
\* Ok(Response {success: false}).
PdfStoreFail ==
    /\ pdfInv.pc = "store"
    /\ PdfEnd("store_error", "None", FALSE)
    /\ UNCHANGED << pdf_content, mlQueue, summaryQueue >>

\* main.rs:266-282: the handler deletes its message; a failure (or a missing
\* receipt handle or queue URL) is at most logged.
PdfDelete(deleted) ==
    /\ pdfInv.pc = "delete"
    /\ pdfQueue' = IF deleted
                   THEN [pdfQueue EXCEPT ![sqs_message] = "deleted"]
                   ELSE pdfQueue
    /\ pdfInv' = [pdfInv EXCEPT !.pc = "route"]
    /\ UNCHANGED << pdfBody, pdfInvocations, pdf_content, mlQueue,
                    summaryQueue, pdfHist >>

\* main.rs:284-286: the record with the results of this stage.
ProcessedRecord ==
    [pdfInv.tender_record EXCEPT
        !.pdf_content = pdfInv.pdf_text,
        !.detected_codes = SomeSeq(pdfInv.detected_codes),
        !.codes_count = SomeInt(Len(pdfInv.detected_codes))]

\* main.rs:289-292: pdf_text.trim().len() < min_pdf_threshold
TooShort(pdf_text) == TrimBytes(pdf_text) < min_pdf_threshold

\* main.rs:292-302: minimal content; the record goes to the AI summary queue
\* for title-only analysis.  A failed send is only logged.
PdfRouteTitleOnly(sent) ==
    /\ pdfInv.pc = "route"
    /\ TooShort(pdfInv.pdf_text)
    /\ LET record == [ProcessedRecord EXCEPT
                         !.processing_stage = "ai_summary_title_only"]
       IN /\ summaryQueue' = IF sent
                             THEN Append(summaryQueue,
                                         forward_to_ai_summary(record))
                             ELSE summaryQueue
          /\ PdfEnd("routed", record.processing_stage, sent)
    /\ UNCHANGED << pdf_content, mlQueue >>

\* main.rs:303-324: substantial content; the record goes to the ML
\* prediction queue.  A failed send is only logged.
PdfRouteMl(sent) ==
    /\ pdfInv.pc = "route"
    /\ ~TooShort(pdfInv.pdf_text)
    /\ LET record == [ProcessedRecord EXCEPT
                         !.processing_stage = "ml_prediction"]
       IN /\ mlQueue' = IF sent
                        THEN Append(mlQueue, forward_to_ml_prediction(record))
                        ELSE mlQueue
          /\ PdfEnd("routed", record.processing_stage, sent)
    /\ UNCHANGED << pdf_content, summaryQueue >>

\* function_handler has returned Ok: the event source deletes every message
\* of the event.
PdfReturn ==
    /\ pdfInv.pc = "return_ok"
    /\ pdfQueue' = [m \in Msgs |-> IF m \in InBatch(pdfInv.batch)
                                    THEN "deleted" ELSE pdfQueue[m]]
    /\ pdfInv' = PdfIdle
    /\ UNCHANGED << pdfBody, pdfInvocations, pdf_content, mlQueue,
                    summaryQueue, pdfHist >>

\* The invocation is killed at its deadline, wherever it is.
PdfTimeout ==
    /\ pdfInv.pc # "idle"
    /\ PdfRedeliver
    /\ UNCHANGED << pdfBody, pdfInvocations, pdf_content, mlQueue,
                    summaryQueue, pdfHist >>

\* -------------------------------------------------------------------------
\* The harvester: postgres_dataload/src/main.rs.  It sends every record it
\* scraped either to the PDF queue or straight to the AI summary queue.

\* The records the harvester can scrape for resource id: without a PDF URL,
\* or with a URL that leads to one of the documents.
HarvestBodies(id) ==
    { [parses |-> TRUE, tender |-> PdfTender(id, ""), doc |-> NoneStr] }
    \cup { [parses |-> TRUE, tender |-> PdfTender(id, "url"), doc |-> d] :
             d \in {StubText, IrishText, LongText} }

\* The harvester has scraped NumMsgs records and sent none of them yet.
HarvestInit ==
    /\ pdfBody \in { b \in [Msgs -> UNION {HarvestBodies(m) : m \in Msgs}] :
                       \A m \in Msgs : b[m] \in HarvestBodies(m) }
    /\ pdfQueue = [m \in Msgs |-> "unsent"]
    /\ pdfInvocations = 0
    /\ pdfInv = PdfIdle
    /\ pdf_content = [m \in Msgs |-> NoRow]
    /\ mlQueue = << >>
    /\ summaryQueue = << >>
    /\ pdfHist = [m \in Msgs |-> NoPdfHist]

\* The record sent on without a stage marker.
UntaggedRecord(record) == record

\* postgres_dataload main.rs:196-198: the record with the stage marker
\* "ai_summary_direct".
DirectRecord(record) ==
    [record EXCEPT !.processing_stage = "ai_summary_direct"]

\* postgres_dataload main.rs:156-179: a record with a PDF URL is sent to the
\* PDF queue as it is; a failed send is only logged.
HarvestPdf(m, sent) ==
    /\ pdfQueue[m] = "unsent"
    /\ pdfBody[m].tender.pdf_url # ""
    /\ pdfQueue' = [pdfQueue EXCEPT ![m] = IF sent THEN "visible"
                                           ELSE "unqueued"]
    /\ UNCHANGED << pdfBody, pdfInvocations, pdfInv, pdf_content, mlQueue,
                    summaryQueue, pdfHist >>

\* postgres_dataload main.rs:195-219: a record without a PDF URL is sent to
\* the AI summary queue with its stage marker; a failed send is only logged.
HarvestDirect(m, sent) ==
    /\ pdfQueue[m] = "unsent"
    /\ pdfBody[m].tender.pdf_url = ""
    /\ LET record == DirectRecord(pdfBody[m].tender)
       IN /\ summaryQueue' = IF sent THEN Append(summaryQueue, record)
                             ELSE summaryQueue
          /\ pdfHist' = [pdfHist EXCEPT ![m] =
                            [outcome |-> "direct",
                             stage |-> record.processing_stage,
                             sent |-> sent]]
    /\ pdfQueue' = [pdfQueue EXCEPT ![m] = "unqueued"]
    /\ UNCHANGED << pdfBody, pdfInvocations, pdfInv, pdf_content, mlQueue >>

(***************************************************************************)
(* Deep review: ai_summary/src/main.rs.                                    *)
(*                                                                         *)
(* function_handler (main.rs:38-58) handles the records of an event one    *)
(* after the other, logs a failed one and returns Ok: every message it is  *)
(* given is deleted.  The records are independent, so an event is modelled *)
(* as one message.  The AI summary queue is fed by content acquisition     *)
(* (summaryQueue) and by the scoring stage (aiQueue).                      *)
(***************************************************************************)
VARIABLES
    ai_summaries,  \* table ai_summaries: resource id -> row
    reviewHist     \* history: the summaries stored, each with the stage
                   \* its message came from

\* The text of a scanned document: 17 bytes of text among 96 bytes of line
\* and page breaks, 113 bytes.
ScannedText == Str(96, << Run("lorem", 3) >>)

\* The bodies of the PDF queue in the pipeline: those that parse, and one
\* whose document is a scan.
ReviewBodies(id) ==
    { b \in PdfBodies(id) : b.parses }
    \cup { [parses |-> TRUE, tender |-> PdfTender(id, "url"),
            doc |-> ScannedText] }

NoSummary == [exists |-> FALSE]

reviewVars == << ai_summaries, reviewHist >>

\* The PDF queue holds NumMsgs messages; nothing is stored, scored or
\* reviewed.
ReviewInit ==
    /\ pdfBody \in { b \in [Msgs -> UNION {ReviewBodies(m) : m \in Msgs}] :
                       \A m \in Msgs : b[m] \in ReviewBodies(m) }
    /\ pdfQueue = [m \in Msgs |-> "visible"]
    /\ pdfInvocations = 0
    /\ pdfInv = PdfIdle
    /\ pdf_content = [m \in Msgs |-> NoRow]
    /\ mlQueue = << >>
    /\ summaryQueue = << >>
    /\ pdfHist = [m \in Msgs |-> NoPdfHist]
    /\ body = << >> /\ qstate = << >> /\ invocations = 0 /\ inv = Idle
    /\ db = [m \in Msgs |-> EmptyRow]
    /\ aiQueue = << >> /\ hist = << >> /\ lastReturn = NoReturn
    /\ ai_summaries = [m \in Msgs |-> NoSummary]
    /\ reviewHist = {}

\* ml_bid_predictor main.rs:66-114 on the first message of the ML queue, in
\* a process whose CA_MAPPING iterates in the order o, every call
\* succeeding: the prediction is written and sent on, Ok is returned and the
\* message deleted.  Without content the routing error is written and Ok
\* returned.  (A failed call returns Err and leaves the message on the
\* queue.)
ScoreForwarded(o) ==
    /\ mlQueue # << >>
    /\ LET tender == Head(mlQueue)
           p == predict(tender, o)
       IN IF p.ok
          THEN /\ db' = [db EXCEPT ![tender.resource_id] = ScoreRow(p)]
               /\ aiQueue' = Append(aiQueue, AISummaryMessage(tender, p))
          ELSE /\ db' = [db EXCEPT ![tender.resource_id] = RoutingErrorRow]
               /\ UNCHANGED aiQueue
    /\ mlQueue' = Tail(mlQueue)
    /\ UNCHANGED << body, qstate, invocations, inv, hist, lastReturn,
                    pdfBody, pdfQueue, pdfInvocations, pdfInv, pdf_content,
                    summaryQueue, pdfHist, reviewVars >>

\* main.rs:92-97: the default prediction for a TenderRecord received
\* directly.
DirectPrediction ==
    PredictOk(TRUE, Micro \div 2,
              Reasoning("Direct processing - no ML prediction available",
                        -1, << >>, -1, -1),
              [codes_count_score |-> 0, has_codes_score |-> 0,
               title_length_score |-> 0, ca_score |-> 0,
               text_features_score |-> 0, total_score |-> 0])

\* main.rs:86-119: the AISummaryMessage of an incoming message, which is an
\* AISummaryMessage or a TenderRecord (types.rs:7-11).
StandardMessage(incoming_message) ==
    IF "tender_title" \in DOMAIN incoming_message
    THEN incoming_message
    ELSE [resource_id |-> incoming_message.resource_id,
          tender_title |-> incoming_message.title,
          ml_prediction |-> DirectPrediction,
          pdf_content |-> IF incoming_message.pdf_content.some
                          THEN incoming_message.pdf_content
                          ELSE Str(0, << >>),
          priority |-> "NORMAL"]

\* main.rs:136: ai_message.pdf_content.is_empty()
\*                  || ai_message.pdf_content.len() < 100
TitleOnlyProcessing(ai_message) ==
    \/ StrBytes(ai_message.pdf_content) = 0
    \/ StrBytes(ai_message.pdf_content) < 100

\* main.rs:136-170: the summary_type of the summary of a message, "ERROR"
\* when the content has to be fetched and the table pdf_content has no row
\* (main.rs:164-165).  generate_title_summary gives "TITLE_ONLY" and
\* generate_full_summary "FULL_PDF" (ai_service.rs:95, 193).
SummaryType(ai_message) ==
    IF TitleOnlyProcessing(ai_message) THEN "TITLE_ONLY"
    ELSE IF \/ StrBytes(ai_message.pdf_content) > 1000
            \/ pdf_content[ai_message.resource_id].exists
         THEN "FULL_PDF"
         ELSE "ERROR"

\* process_summary_message on an incoming message that came by the stage
\* source.  ok: get_tender_record, the model call and store_ai_summary
\* succeed.
ProcessSummaryMessage(incoming_message, source, ok) ==
    LET ai_message == StandardMessage(incoming_message)
        summary_type == SummaryType(ai_message)
    IN IF ok /\ summary_type # "ERROR"
       THEN /\ ai_summaries' =
                   [ai_summaries EXCEPT ![ai_message.resource_id] =
                       [exists |-> TRUE, summary_type |-> summary_type]]
            /\ reviewHist' = reviewHist \cup
                   {[resource_id |-> ai_message.resource_id,
                     source |-> source, summary_type |-> summary_type]}
       ELSE UNCHANGED reviewVars

\* ai_summary handles the first message content acquisition put on the AI
\* summary queue.
ReviewRouted(ok) ==
    /\ summaryQueue # << >>
    /\ ProcessSummaryMessage(Head(summaryQueue), "content_acquisition", ok)
    /\ summaryQueue' = Tail(summaryQueue)
    /\ UNCHANGED << scoreVars, pdfBody, pdfQueue, pdfInvocations, pdfInv,
                    pdf_content, mlQueue, pdfHist >>

\* ai_summary handles the first message the scoring stage put on the AI
\* summary queue.
ReviewScored(ok) ==
    /\ aiQueue # << >>
    /\ ProcessSummaryMessage(Head(aiQueue), "scoring", ok)
    /\ aiQueue' = Tail(aiQueue)
    /\ UNCHANGED << body, qstate, invocations, inv, db, hist, lastReturn,
                    pdfVars >>

\* -------------------------------------------------------------------------
\* Properties of content acquisition.

PdfRid(m) == pdfBody[m].tender.resource_id
OnSummaryQueue(m) ==
    \E k \in DOMAIN summaryQueue : summaryQueue[k].resource_id = PdfRid(m)
OnMlQueue(m) ==
    \E k \in DOMAIN mlQueue : mlQueue[k].resource_id = PdfRid(m)

\* C2: the inbound message of content acquisition is deleted only after
\* store_pdf_content_with_codes succeeded: no message whose store failed is
\* ever removed from the queue.
C2_DeleteOnlyAfterStore ==
    \A m \in Msgs :
        pdfQueue[m] = "deleted" => pdfHist[m].outcome # "store_error"

\* C8: a tender that content acquisition has forwarded is on the title-only
\* path (on the AI summary queue, stage ai_summary_title_only, not on the ML
\* queue) exactly when its PDF URL is empty or its trimmed text has fewer
\* than 100 characters; otherwise it is on the ML queue with stage
\* ml_prediction.
C8_Routing ==
    \A m \in Msgs :
        (pdfBody[m].parses /\ pdfHist[m].sent) =>
            IF \/ pdfBody[m].tender.pdf_url = ""
               \/ TrimChars(pdfBody[m].doc) < 100
            THEN /\ OnSummaryQueue(m) /\ ~OnMlQueue(m)
                 /\ pdfHist[m].stage = "ai_summary_title_only"
            ELSE /\ OnMlQueue(m) /\ ~OnSummaryQueue(m)
                 /\ pdfHist[m].stage = "ml_prediction"

\* C27: once content acquisition has stored the content of a tender and
\* its inbound message is deleted, the tender is forwarded to exactly one
\* downstream queue.  When no invocation is running nothing more can happen
\* to a deleted message, so by then the forward must have been made, even
\* if a send failed on the way.
C27_ForwardedOnceDeleted ==
    \A m \in Msgs :
        (/\ pdfBody[m].parses
         /\ pdfBody[m].tender.pdf_url # ""
         /\ pdf_content[PdfRid(m)].exists
         /\ pdfQueue[m] = "deleted"
         /\ pdfInv.pc = "idle")
            => (OnMlQueue(m) # OnSummaryQueue(m))

\* C29: every message content acquisition places on the scoring queue
\* carries content whose trimmed length is at least 100 characters, so that
\* for these messages predict finds the content it requires and the
\* missing-content branch of the scoring handler is not taken.
C29_ScoringContentLongEnough ==
    \A k \in DOMAIN mlQueue :
        /\ mlQueue[k].pdf_content.some
        /\ TrimChars(mlQueue[k].pdf_content) >= 100
        /\ HasContent(mlQueue[k])

\* C37: every record of the SQS event delivered to one invocation of
\* content acquisition is processed by that invocation or left on the queue
\* for redelivery; no record of the event is skipped while the invocation
\* reports success.  A record that is gone from the queue has therefore
\* been handled by the invocation that got it.
C37_NoRecordSkipped ==
    \A m \in Msgs :
        pdfQueue[m] = "deleted" => pdfHist[m].outcome # "none"

\* The entries of the code list whose code number occurs in text.
NumbersIn(text) ==
    {i \in 1..Len(CodesFile) : TextContains(text, CodesFile[i][1])}

\* C31: extract_codes returns the entries of the code list whose code
\* number or description occurs in the text.  In particular, once content
\* acquisition has extracted the text of a document, every entry of the
\* code list it loaded whose code number occurs in the text is among the
\* detected codes, and the row it stores counts these entries in
\* codes_count.
C31_LoadedCodesDetected ==
    /\ pdfInv.pc \in {"store", "delete", "route"} =>
           \A i \in NumbersIn(pdfInv.pdf_text) :
               \E k \in DOMAIN pdfInv.detected_codes :
                   pdfInv.detected_codes[k][1] = CodesFile[i][1]
    /\ \A m \in Msgs :
           (pdfBody[m].parses /\ pdf_content[PdfRid(m)].exists) =>
               pdf_content[PdfRid(m)].codes_count
                   >= Cardinality(NumbersIn(pdf_content[PdfRid(m)].pdf_text))

\* C30: the routing of content acquisition and the processing mode of deep
\* review agree.  Every summary of a tender that content acquisition
\* routed title-only (stage ai_summary_title_only) is made by title-only
\* processing, and every summary of a tender forwarded after scoring by
\* full-content processing.
C30_RoutingAndModeAgree ==
    \A h \in reviewHist :
        /\ h.source = "content_acquisition" => h.summary_type = "TITLE_ONLY"
        /\ h.source = "scoring" => h.summary_type = "FULL_PDF"

(***************************************************************************)
(* A run of the harvester: postgres_dataload/src/main.rs, function_handler *)
(* from the scraped records on.  The sends are HarvestPdf and              *)
(* HarvestDirect above, here in their place after save_records.            *)
(***************************************************************************)
VARIABLES
    tender_records,  \* table tender_records: whether the record is saved
    harvestRun       \* the run: where it is, the next record to save, and
                     \* whether the request asked for test mode

harvestVars == << tender_records, harvestRun >>

\* The records are scraped; nothing is saved or sent.
HarvestRunInit ==
    /\ HarvestInit
    /\ tender_records = [m \in Msgs |-> FALSE]
    /\ harvestRun \in { [pc |-> "scraped", idx |-> 1, test_mode |-> t] :
                           t \in BOOLEAN }

\* A run whose failed save is only logged, as a failed send is.
SaveErrLogged == "send"

\* main.rs:133: `save_records(pool_ref, &records).await?` on an error of
\* save_records: function_handler returns it.
SaveErr == "failed"

\* main.rs:130, 138, 224-234: in test mode nothing is saved and nothing is
\* sent; the records are returned.
HarvestTestMode ==
    /\ harvestRun.pc = "scraped"
    /\ harvestRun.test_mode
    /\ harvestRun' = [harvestRun EXCEPT !.pc = "returned"]
    /\ UNCHANGED << tender_records, pdfVars >>

\* main.rs:130-133: save_records is called.
HarvestSave ==
    /\ harvestRun.pc = "scraped"
    /\ ~harvestRun.test_mode
    /\ harvestRun' = [harvestRun EXCEPT !.pc = "save"]
    /\ UNCHANGED << tender_records, pdfVars >>

\* save_records (main.rs:265-305): the insert of the next record succeeds;
\* after the last one Ok(()) is returned.
SaveRecordOk ==
    /\ harvestRun.pc = "save"
    /\ tender_records' = [tender_records EXCEPT ![harvestRun.idx] = TRUE]
    /\ harvestRun' = [harvestRun EXCEPT
                         !.idx = @ + 1,
                         !.pc = IF harvestRun.idx = NumMsgs THEN "send"
                                ELSE "save"]
    /\ UNCHANGED pdfVars

\* save_records: the insert of the next record fails and `?` returns the
\* error; the records saved before it stay saved.
SaveRecordFail ==
    /\ harvestRun.pc = "save"
    /\ harvestRun' = [harvestRun EXCEPT !.pc = SaveErr]
    /\ UNCHANGED << tender_records, pdfVars >>

\* main.rs:143-179: a record with a PDF URL is sent.
RunHarvestPdf(m, sent) ==
    /\ harvestRun.pc = "send"
    /\ HarvestPdf(m, sent)
    /\ UNCHANGED harvestVars

\* main.rs:182-219: a record without a PDF URL is sent.
RunHarvestDirect(m, sent) ==
    /\ harvestRun.pc = "send"
    /\ HarvestDirect(m, sent)
    /\ UNCHANGED harvestVars

\* main.rs:223-234: every record has been dealt with; Ok is returned.
HarvestReturn ==
    /\ harvestRun.pc = "send"
    /\ \A m \in Msgs : pdfQueue[m] # "unsent"
    /\ harvestRun' = [harvestRun EXCEPT !.pc = "returned"]
    /\ UNCHANGED << tender_records, pdfVars >>

\* A message for the record m has been enqueued.
Enqueued(m) ==
    \/ pdfQueue[m] = "visible"
    \/ \E k \in DOMAIN summaryQueue : summaryQueue[k].resource_id = PdfRid(m)

\* C34: the harvester enqueues a message for a tender, to the PDF queue or
\* to the AI summary queue, only after save_records has persisted all the
\* scraped records; if persistence fails, no message is enqueued for any
\* record of the run.
C34_EnqueueAfterPersist ==
    /\ (\E m \in Msgs : Enqueued(m)) => \A n \in Msgs : tender_records[n]
    /\ harvestRun.pc = "failed" => \A m \in Msgs : ~Enqueued(m)

\* C34's case: every record is saved, and one record is on the PDF queue
\* and another on the AI summary queue.
C34_Witness ==
    /\ \A n \in Msgs : tender_records[n]
    /\ \E m \in Msgs : pdfQueue[m] = "visible"
    /\ summaryQueue # << >>

(***************************************************************************)
(* Deep review, after the summary is made: ai_summary/src/main.rs:172-219  *)
(* and notification_service.rs.                                            *)
(*                                                                         *)
(* A text is the sequence of its words, and a phrase occurs in a text when *)
(* its words occur there in a row.  For the texts of the model this is     *)
(* str::contains: none of their words has a phrase of the tables inside    *)
(* it.                                                                     *)
(***************************************************************************)
VARIABLES
    noteInput,       \* the summary Claude gave and the ML prediction of the
                     \* message
    noteRun,         \* where process_summary_message is, and its decision
    ai_summary_row,  \* the row of the tender in table ai_summaries
    snsQueue         \* the notification queue

noteVars == << noteInput, noteRun, ai_summary_row, snsQueue >>

\* it_keywords (notification_service.rs:58-63), each phrase as its words.
it_keywords == <<
    <<"software", "development">>, <<"it", "consultancy">>,
    <<"it", "consulting">>, <<"technical", "support">>,
    <<"system", "implementation">>, <<"database">>,
    <<"web", "development">>, <<"api">>, <<"cloud">>, <<"cybersecurity">>,
    <<"network">>, <<"server">>, <<"application">>, <<"programming">>,
    <<"crm", "system">>, <<"software">>, <<"digital", "platform">>,
    <<"technical">>, <<"it", "service">> >>

\* positive_indicators (notification_service.rs:68-71), each phrase as its words.
positive_indicators == <<
    <<"legitimate", "it">>, <<"clear", "it">>, <<"genuine", "it">>,
    <<"solid", "it", "opportunity">>, <<"this", "is", "an", "it">>,
    <<"it", "consultancy", "opportunity">>, <<"technical", "opportunity">> >>

\* non_it_keywords (notification_service.rs:98-129), each phrase as its words.
non_it_keywords == <<
    <<"construction">>, <<"building", "work">>, <<"renovation">>,
    <<"refurbishment">>, <<"extension">>, <<"architectural">>,
    <<"structural">>, <<"civil", "engineering">>,
    <<"building", "maintenance">>, <<"catering">>, <<"food", "service">>,
    <<"school", "meals">>, <<"breakfast">>, <<"lunch">>, <<"dinner">>,
    <<"meal", "provision">>, <<"kitchen">>, <<"dining">>,
    <<"food", "preparation">>, <<"canteen">>, <<"cleaning">>,
    <<"cleaning", "service">>, <<"janitorial">>, <<"housekeeping">>,
    <<"grounds", "maintenance">>, <<"facilities", "management">>,
    <<"waste", "management">>, <<"refuse", "collection">>, <<"medical">>,
    <<"healthcare">>, <<"clinical">>, <<"hospital">>, <<"patient">>,
    <<"medical", "equipment">>, <<"eeg", "machine">>,
    <<"medical", "device">>, <<"health", "service">>,
    <<"medical", "supply">>, <<"security", "guard">>,
    <<"security", "service">>, <<"cctv", "installation">>,
    <<"access", "control", "installation">>, <<"physical", "security">>,
    <<"patrol">>, <<"security", "personnel">>, <<"safety", "equipment">>,
    <<"plumbing">>, <<"electrical", "installation">>, <<"heating">>,
    <<"ventilation">>, <<"hvac">>, <<"water", "supply">>, <<"sewerage">>,
    <<"drainage">>, <<"utilities">>, <<"gas", "installation">>,
    <<"legal", "service">>, <<"accounting">>, <<"surveying">>,
    <<"architectural", "service">>, <<"hr", "service">>, <<"recruitment">>,
    <<"legal", "advice">>, <<"financial", "advice">>, <<"transport">>,
    <<"delivery">>, <<"logistics">>, <<"fleet", "management">>,
    <<"vehicle", "maintenance">> >>

\* no_bid_patterns (notification_service.rs:143-147), each phrase as its words.
no_bid_patterns == <<
    <<"no", "bid">>, <<"do", "not", "bid">>, <<"don't", "bid">>,
    <<"not", "suitable">>, <<"not", "appropriate">>, <<"not", "relevant">>,
    <<"outside", "scope">>, <<"non-it">>, <<"not", "it", "related">>,
    <<"not", "technical">>, <<"unrelated">>, <<"irrelevant">>, <<"avoid">>,
    <<"reject">>, <<"not", "recommended">> >>

\* str::to_lowercase, word by word.
LowerWord(w) ==
    CASE w = "Review" -> "review"
      [] w = "BID" -> "bid"
      [] w = "NO" -> "no"
      [] OTHER -> w
to_lowercase(text) == [i \in DOMAIN text |-> LowerWord(text[i])]

\* table.iter().any(|phrase| text.contains(phrase))
AnyIn(table, text) == \E i \in DOMAIN table : Contains(text, table[i])

\* The recommendation and the note parse_ai_response gives a response that
\* is not JSON (ai_service.rs:362-371), and the notes of ai_service.rs:303,
\* 308 and 324.  The emoji a note starts with is left out.
FallbackRecommendation ==
    << "Review", "the", "summary", "for", "recommendations" >>
FallbackNote == "Claude response could not be parsed as JSON"
ParsedNote == "Successfully parsed structured Claude response"
OverrodeNote == "Claude OVERRODE the ML prediction"
NonItNote == "NON-IT INDICATOR DETECTED: catering"

\* main.rs:184 and 208: the notes process_summary_message adds.
SentNote == "EMAIL NOTIFICATION SENT - Claude confirmed ML recommendation"
SuppressedNote ==
    "EMAIL NOTIFICATION SUPPRESSED - Claude overrode ML or identified non-IT tender"

\* processing_notes.iter().any(|note| note.contains(..)) for the notes
\* above.
HasNote(processing_notes, note) ==
    \E i \in DOMAIN processing_notes : processing_notes[i] = note

\* A decision that falls back on the ML prediction when Claude's response
\* was not JSON, as the comment on the parameter says.
should_send_with_ml_fallback(summary_result, ml_prediction) ==
    IF /\ summary_result.recommendation = FallbackRecommendation
       /\ HasNote(summary_result.processing_notes, FallbackNote)
    THEN ml_prediction.should_bid
    ELSE LET recommendation_lower ==
                 to_lowercase(summary_result.recommendation)
         IN /\ Contains(recommendation_lower, << "bid" >>)
            /\ ~Contains(recommendation_lower, << "no", "bid" >>)

\* NotificationService::should_send_notification
\* (notification_service.rs:32-159).
should_send_notification(summary_result, ml_prediction) ==
    LET recommendation_lower == to_lowercase(summary_result.recommendation)
        ai_summary_lower == to_lowercase(summary_result.ai_summary)
        is_json_fallback ==
            /\ summary_result.recommendation = FallbackRecommendation
            /\ HasNote(summary_result.processing_notes, FallbackNote)
        claude_says_bid ==
            /\ Contains(recommendation_lower, << "bid" >>)
            /\ ~Contains(recommendation_lower, << "no", "bid" >>)
        has_it_keywords == AnyIn(it_keywords, ai_summary_lower)
        has_positive_indicators ==
            AnyIn(positive_indicators, ai_summary_lower)
        combined_text ==
            ai_summary_lower \o recommendation_lower
                \o to_lowercase(summary_result.key_points)
    IN IF is_json_fallback /\ ~(has_it_keywords /\ has_positive_indicators)
       THEN FALSE
       ELSE IF ~is_json_fallback /\ ~claude_says_bid
       THEN FALSE
       ELSE IF AnyIn(non_it_keywords, combined_text)
       THEN FALSE
       ELSE IF AnyIn(no_bid_patterns, combined_text)
       THEN FALSE
       ELSE TRUE

\* The summaries of the model.
Recommendations ==
    { << "BID" >>, << "NO", "BID" >>, << "monitor" >>,
      FallbackRecommendation }
Summaries ==
    { << "lorem" >>,
      << "clear", "it", "opportunity", "for", "software" >>,
      << "software", "and", "catering" >>,
      << "software", "but", "not", "recommended" >> }
KeyPoints == { << >>, << "cleaning" >> }
Notes == { << ParsedNote >>, << ParsedNote, OverrodeNote >>,
           << FallbackNote >> }
SummaryResults ==
    { [recommendation |-> r, ai_summary |-> a, key_points |-> k,
       processing_notes |-> n, summary_type |-> t] :
        r \in Recommendations, a \in Summaries, k \in KeyPoints,
        n \in Notes, t \in {"TITLE_ONLY", "FULL_PDF"} }

\* The ML predictions of the model, reduced to what the stage reads.
MlPredictions ==
    { [should_bid |-> b, confidence |-> c, reasoning |-> r] :
        b \in BOOLEAN, c \in {0, Micro \div 2},
        r \in {"HARD_EXCLUSION", "HIGH_CONFIDENCE_BID"} }

NoDecision == [pc |-> "summarised", decided |-> FALSE, decision |-> FALSE]

\* The summary has been made (main.rs:136-170); nothing is stored or sent.
NoteInit ==
    /\ noteInput \in { [summary_result |-> sr, ml_prediction |-> p] :
                          sr \in SummaryResults, p \in MlPredictions }
    /\ noteRun = NoDecision
    /\ ai_summary_row = [exists |-> FALSE, processing_notes |-> << >>]
    /\ snsQueue = << >>

\* main.rs:173: store_ai_summary(&summary_result); on an error `?` returns
\* it from process_summary_message, which function_handler logs.
StoreSummary(ok) ==
    /\ noteRun.pc = "summarised"
    /\ IF ok
       THEN /\ ai_summary_row' =
                   [exists |-> TRUE,
                    processing_notes |->
                        noteInput.summary_result.processing_notes]
            /\ noteRun' = [noteRun EXCEPT !.pc = "decide"]
       ELSE /\ noteRun' = [noteRun EXCEPT !.pc = "failed"]
            /\ UNCHANGED ai_summary_row
    /\ UNCHANGED << noteInput, snsQueue >>

\* main.rs:179: the decision.
DecideNotification ==
    /\ noteRun.pc = "decide"
    /\ LET send == should_send_notification(noteInput.summary_result,
                                            noteInput.ml_prediction)
       IN noteRun' = [pc |-> IF send THEN "note_sent" ELSE "note_suppressed",
                      decided |-> TRUE, decision |-> send]
    /\ UNCHANGED << noteInput, ai_summary_row, snsQueue >>

\* main.rs:183-187: the summary with the note that the email notification
\* was sent is stored.
StoreSentNote(ok) ==
    /\ noteRun.pc = "note_sent"
    /\ IF ok
       THEN /\ ai_summary_row' =
                   [exists |-> TRUE,
                    processing_notes |->
                        Append(noteInput.summary_result.processing_notes,
                               SentNote)]
            /\ noteRun' = [noteRun EXCEPT !.pc = "send"]
       ELSE /\ noteRun' = [noteRun EXCEPT !.pc = "failed"]
            /\ UNCHANGED ai_summary_row
    /\ UNCHANGED << noteInput, snsQueue >>

\* The priority send_summary_complete_notification gives the message
\* (notification_service.rs:171-189).
NotificationPriority(summary_result, ml_prediction) ==
    LET claude_override ==
            HasNote(summary_result.processing_notes, OverrodeNote)
        has_non_it_indicators ==
            HasNote(summary_result.processing_notes, NonItNote)
    IN IF claude_override /\ ml_prediction.should_bid THEN "CRITICAL"
       ELSE IF ml_prediction.should_bid /\ ~has_non_it_indicators
       THEN "URGENT"
       ELSE IF has_non_it_indicators THEN "MEDIUM"
       ELSE IF summary_result.summary_type = "FULL_PDF" THEN "HIGH"
       ELSE "NORMAL"

\* main.rs:190-194: send_summary_complete_notification; on an error `?`
\* returns it from process_summary_message.
SendNotification(ok) ==
    /\ noteRun.pc = "send"
    /\ IF ok
       THEN /\ snsQueue' =
                   Append(snsQueue,
                          [message_type |-> "AI_SUMMARY_COMPLETE",
                           priority |->
                               NotificationPriority(
                                   [noteInput.summary_result EXCEPT
                                       !.processing_notes =
                                           Append(@, SentNote)],
                                   noteInput.ml_prediction)])
            /\ noteRun' = [noteRun EXCEPT !.pc = "done"]
       ELSE /\ noteRun' = [noteRun EXCEPT !.pc = "failed"]
            /\ UNCHANGED snsQueue
    /\ UNCHANGED << noteInput, ai_summary_row >>

\* main.rs:207-211: the summary with the note that the notification was
\* suppressed is stored.
StoreSuppressedNote(ok) ==
    /\ noteRun.pc = "note_suppressed"
    /\ IF ok
       THEN /\ ai_summary_row' =
                   [exists |-> TRUE,
                    processing_notes |->
                        Append(noteInput.summary_result.processing_notes,
                               SuppressedNote)]
            /\ noteRun' = [noteRun EXCEPT !.pc = "done"]
       ELSE /\ noteRun' = [noteRun EXCEPT !.pc = "failed"]
            /\ UNCHANGED ai_summary_row
    /\ UNCHANGED << noteInput, snsQueue >>

\* C35: the stored summary carries the note that the email notification
\* was sent only if the notification message was enqueued: no execution of
\* process_summary_message ends with the note persisted and no
\* notification message sent.
C35_NoteOnlyIfSent ==
    (/\ noteRun.pc \in {"done", "failed"}
     /\ HasNote(ai_summary_row.processing_notes, SentNote))
        => snsQueue # << >>

\* The decision has been made.
Decided == noteRun.decided

VARIABLES
    notifyBody,         \* the body of each message of the notification queue
    notifyQueue,        \* "visible", "inflight" or "deleted", per message
    notifyInvocations,  \* invocations started
    notifyInv,          \* the running invocation
    emails,             \* emails sent, per message
    notification_sent,  \* tender_records.notification_sent, per tender
    notifyLast          \* history: the last invocation that ended

\* The bodies the notification queue can hold for resource id: none, one
\* that is not an SNSMessage, and an SNSMessage.
NotifyBodies(id) ==
    { [kind |-> "none", resource_id |-> 0],
      [kind |-> "malformed", resource_id |-> 0],
      [kind |-> "message", resource_id |-> id] }

NotifyIdle == [pc |-> "idle", batch |-> << >>, idx |-> 0,
               processed_count |-> 0, reached |-> {}]

\* notifyLast before any invocation has ended; afterwards its batch, the
\* messages of it the loop got to, and how it ended.
NoNotifyLast == [batch |-> << >>, reached |-> {}, result |-> "none"]

notifyVars == << notifyBody, notifyQueue, notifyInvocations, notifyInv,
                 emails, notification_sent, notifyLast >>

NotifyInit ==
    /\ notifyBody \in
           { b \in [Msgs -> UNION {NotifyBodies(m) : m \in Msgs}] :
               \A m \in Msgs : b[m] \in NotifyBodies(m) }
    /\ notifyQueue = [m \in Msgs |-> "visible"]
    /\ notifyInvocations = 0
    /\ notifyInv = NotifyIdle
    /\ emails = [m \in Msgs |-> 0]
    /\ notification_sent = [m \in Msgs |-> FALSE]
    /\ notifyLast = NoNotifyLast

NotifyVisible == {m \in Msgs : notifyQueue[m] = "visible"}
NotifyBatches ==
    {b \in UNION {[1..k -> NotifyVisible] :
                     k \in 1..Cardinality(NotifyVisible)} :
        \A i, j \in DOMAIN b : i < j => b[i] < b[j]}

\* The event source invokes function_handler with a batch.
NotifyInvoke(b) ==
    /\ notifyInv.pc = "idle"
    /\ notifyInvocations < MaxInvocations
    /\ notifyInv' = [NotifyIdle EXCEPT !.pc = "init", !.batch = b, !.idx = 1]
    /\ notifyQueue' = [m \in Msgs |-> IF m \in InBatch(b) THEN "inflight"
                                       ELSE notifyQueue[m]]
    /\ notifyInvocations' = notifyInvocations + 1
    /\ UNCHANGED << notifyBody, emails, notification_sent, notifyLast >>

\* function_handler returns Err: the whole batch becomes visible again.
NotifyErr(reached, ended) ==
    /\ notifyQueue' = [m \in Msgs |->
                          IF m \in InBatch(notifyInv.batch) THEN "visible"
                          ELSE notifyQueue[m]]
    /\ notifyLast' = [batch |-> notifyInv.batch, reached |-> reached,
                      result |-> ended]
    /\ notifyInv' = NotifyIdle
    /\ UNCHANGED << notifyBody, notifyInvocations, emails,
                    notification_sent >>

\* main.rs:39-60: the configuration, the email service and the database
\* pool are set up.
NotifyInitOk ==
    /\ notifyInv.pc = "init"
    /\ notifyInv' = [notifyInv EXCEPT !.pc = "loop"]
    /\ UNCHANGED << notifyBody, notifyQueue, notifyInvocations, emails,
                    notification_sent, notifyLast >>

\* main.rs:39-60: one of them fails and `?` returns the error.
NotifyInitFail ==
    /\ notifyInv.pc = "init"
    /\ NotifyErr({}, "init_err")

\* The message the loop of main.rs:65 is at.
NotifyCurrent == notifyInv.batch[notifyInv.idx]

\* The loop is at a record.
AtRecord ==
    /\ notifyInv.pc = "loop"
    /\ notifyInv.idx <= Len(notifyInv.batch)

\* main.rs:66, 99-101: the record has no body and is skipped.
NotifyNoBody ==
    /\ AtRecord
    /\ notifyBody[NotifyCurrent].kind = "none"
    /\ notifyInv' = [notifyInv EXCEPT !.idx = @ + 1,
                                      !.reached = @ \cup {NotifyCurrent}]
    /\ UNCHANGED << notifyBody, notifyQueue, notifyInvocations, emails,
                    notification_sent, notifyLast >>

\* main.rs:70-73: the body is not an SNSMessage; `?` returns the error from
\* function_handler.
NotifyParseFail ==
    /\ AtRecord
    /\ notifyBody[NotifyCurrent].kind = "malformed"
    /\ NotifyErr(notifyInv.reached \cup {NotifyCurrent}, "err")

\* main.rs:70-78: the body parses.
NotifyParsed ==
    /\ AtRecord
    /\ notifyBody[NotifyCurrent].kind = "message"
    /\ notifyInv' = [notifyInv EXCEPT !.pc = "email",
                                      !.reached = @ \cup {NotifyCurrent}]
    /\ UNCHANGED << notifyBody, notifyQueue, notifyInvocations, emails,
                    notification_sent, notifyLast >>

\* main.rs:81-83: send_notification succeeds.
NotifyEmailOk ==
    /\ notifyInv.pc = "email"
    /\ emails' = [emails EXCEPT ![NotifyCurrent] = @ + 1]
    /\ notifyInv' = [notifyInv EXCEPT !.pc = "mark"]
    /\ UNCHANGED << notifyBody, notifyQueue, notifyInvocations,
                    notification_sent, notifyLast >>

\* main.rs:81-87: send_notification fails; `?` returns the error from
\* function_handler.
NotifyEmailFail ==
    /\ notifyInv.pc = "email"
    /\ NotifyErr(notifyInv.reached, "err")

\* main.rs:90-97: mark_tender_as_notified succeeds.
NotifyMarkOk ==
    /\ notifyInv.pc = "mark"
    /\ notification_sent' =
           [notification_sent EXCEPT
               ![notifyBody[NotifyCurrent].resource_id] = TRUE]
    /\ notifyInv' = [notifyInv EXCEPT !.pc = "loop", !.idx = @ + 1,
                                      !.processed_count = @ + 1]
    /\ UNCHANGED << notifyBody, notifyQueue, notifyInvocations, emails,
                    notifyLast >>

\* main.rs:90-95: mark_tender_as_notified fails; `?` returns the error from
\* function_handler.
NotifyMarkFail ==
    /\ notifyInv.pc = "mark"
    /\ NotifyErr(notifyInv.reached, "err")

\* main.rs:104-109: the loop is over and Ok is returned; the event source
\* deletes the messages of the batch.
NotifyReturn ==
    /\ notifyInv.pc = "loop"
    /\ notifyInv.idx > Len(notifyInv.batch)
    /\ notifyQueue' = [m \in Msgs |->
                          IF m \in InBatch(notifyInv.batch) THEN "deleted"
                          ELSE notifyQueue[m]]
    /\ notifyLast' = [batch |-> notifyInv.batch,
                      reached |-> notifyInv.reached, result |-> "ok"]
    /\ notifyInv' = NotifyIdle
    /\ UNCHANGED << notifyBody, notifyInvocations, emails,
                    notification_sent >>

\* C32: in a batch handled by the notifier each message succeeds or fails
\* independently.  Whatever fails on one message (parse, email, database),
\* the invocation gets to every message of its batch, and no message is
\* processed again because of it: no notification is emailed twice.
C32_MessagesIndependent ==
    /\ notifyLast.result \in {"ok", "err"} =>
           InBatch(notifyLast.batch) = notifyLast.reached
    /\ \A m \in Msgs : emails[m] <= 1

(***************************************************************************)
(* The specifications.  Each is one stage, or one function, on its own:    *)
(* the variables of the others keep their initial values.                  *)
(***************************************************************************)
\* The variables of the notifier and of a run of the harvester.
lateVars == << notifyVars, harvestVars, noteVars >>

vars == << scoreVars, predictVars, pdfVars, concVars, reviewVars,
                           lateVars >>

\* The scoring stage is not running.
ScoreOff ==
    /\ body = << >> /\ qstate = << >> /\ invocations = 0 /\ inv = Idle
    /\ db = << >> /\ aiQueue = << >> /\ hist = << >>
    /\ lastReturn = NoReturn

\* predict is not being called.
PredictOff ==
    /\ input = [tender |-> Tender(0, << >>, << >>, NoneStr, NoneInt),
                order |-> << >>]
    /\ result = NotCalled
    /\ features = NotExtracted

\* Content acquisition is not running.
PdfOff ==
    /\ pdfBody = << >> /\ pdfQueue = << >> /\ pdfInvocations = 0
    /\ pdfInv = PdfIdle /\ pdf_content = << >> /\ mlQueue = << >>
    /\ summaryQueue = << >> /\ pdfHist = << >>

\* No concurrent invocations are running.
ConcOff == workers = << >>

\* Deep review is not running.
ReviewOff == ai_summaries = << >> /\ reviewHist = {}

\* The notifier is not running.
NotifyOff ==
    /\ notifyBody = << >> /\ notifyQueue = << >> /\ notifyInvocations = 0
    /\ notifyInv = NotifyIdle /\ emails = << >>
    /\ notification_sent = << >> /\ notifyLast = NoNotifyLast

\* No run of the harvester is modelled.
HarvestOff ==
    /\ tender_records = << >>
    /\ harvestRun = [pc |-> "off", idx |-> 0, test_mode |-> FALSE]

\* No summary is being stored.
NoteOff ==
    /\ noteInput = << >> /\ noteRun = NoDecision
    /\ ai_summary_row = << >> /\ snsQueue = << >>

LateOff == NotifyOff /\ HarvestOff /\ NoteOff

Init == ScoreInit /\ PredictOff /\ PdfOff /\ ConcOff /\ ReviewOff
    /\ LateOff

Next ==
    \/ (\E b \in Batches, o \in CaOrders : Invoke(b, o))
           /\ UNCHANGED << predictVars, pdfVars, concVars, reviewVars,
                           lateVars >>
    \/ InitOk /\ UNCHANGED << predictVars, pdfVars, concVars, reviewVars,
                           lateVars >>
    \/ InitFail /\ UNCHANGED << predictVars, pdfVars, concVars, reviewVars,
                           lateVars >>
    \/ ParseFail /\ UNCHANGED << predictVars, pdfVars, concVars, reviewVars,
                           lateVars >>
    \/ NoContent /\ UNCHANGED << predictVars, pdfVars, concVars, reviewVars,
                           lateVars >>
    \/ WriteRoutingErrorOk /\ UNCHANGED << predictVars, pdfVars, concVars, reviewVars,
                           lateVars >>
    \/ WriteRoutingErrorFail /\ UNCHANGED << predictVars, pdfVars, concVars, reviewVars,
                           lateVars >>
    \/ Predict /\ UNCHANGED << predictVars, pdfVars, concVars, reviewVars,
                           lateVars >>
    \/ WriteOk /\ UNCHANGED << predictVars, pdfVars, concVars, reviewVars,
                           lateVars >>
    \/ WriteFail /\ UNCHANGED << predictVars, pdfVars, concVars, reviewVars,
                           lateVars >>
    \/ SendOk /\ UNCHANGED << predictVars, pdfVars, concVars, reviewVars,
                           lateVars >>
    \/ SendFail /\ UNCHANGED << predictVars, pdfVars, concVars, reviewVars,
                           lateVars >>
    \/ Return /\ UNCHANGED << predictVars, pdfVars, concVars, reviewVars,
                           lateVars >>
    \/ Timeout /\ UNCHANGED << predictVars, pdfVars, concVars, reviewVars,
                           lateVars >>

\* The scoring stage under redelivery.
Spec == Init /\ [][Next]_vars

InitBatch == BatchInit /\ PredictOff /\ PdfOff /\ ConcOff /\ ReviewOff
    /\ LateOff

\* The scoring stage, one invocation on one batch.
SpecBatch == InitBatch /\ [][Next]_vars

ConcNext ==
    \/ (\E m \in Msgs : ConcParseFail(m))
           /\ UNCHANGED << body, qstate, invocations, inv, hist, lastReturn,
                           predictVars, pdfVars,
                           reviewVars,
                           lateVars >>
    \/ (\E m \in Msgs, written \in BOOLEAN : ConcNoContent(m, written))
           /\ UNCHANGED << body, qstate, invocations, inv, hist, lastReturn,
                           predictVars, pdfVars,
                           reviewVars,
                           lateVars >>
    \/ (\E m \in Msgs : ConcPredict(m))
           /\ UNCHANGED << body, qstate, invocations, inv, hist, lastReturn,
                           predictVars, pdfVars,
                           reviewVars,
                           lateVars >>
    \/ (\E m \in Msgs, written \in BOOLEAN : ConcWrite(m, written))
           /\ UNCHANGED << body, qstate, invocations, inv, hist, lastReturn,
                           predictVars, pdfVars,
                           reviewVars,
                           lateVars >>
    \/ (\E m \in Msgs, sent \in BOOLEAN : ConcSend(m, sent))
           /\ UNCHANGED << body, qstate, invocations, inv, hist, lastReturn,
                           predictVars, pdfVars,
                           reviewVars,
                           lateVars >>

InitConc == ConcInit /\ PredictOff /\ PdfOff /\ ReviewOff
    /\ LateOff

\* The scoring stage, one concurrent invocation per message.
SpecConc == InitConc /\ [][ConcNext]_vars

PredictNext ==
    \/ CallPredict /\ UNCHANGED << scoreVars, pdfVars, concVars, reviewVars,
                           lateVars >>

InitPredict == PredictInit /\ ScoreOff /\ PdfOff /\ ConcOff /\ ReviewOff
    /\ LateOff

\* predict on every input of the bounded sets.
SpecPredict == InitPredict /\ [][PredictNext]_vars

\* Feature extraction alone, over the same inputs.
ExtractNext ==
    \/ CallExtractFeatures /\ UNCHANGED << scoreVars, pdfVars, concVars, reviewVars,
                           lateVars >>

SpecExtract == InitPredict /\ [][ExtractNext]_vars

PdfNext ==
    \/ (\E b \in PdfBatches : PdfInvoke(b))
           /\ UNCHANGED << scoreVars, predictVars, concVars, reviewVars,
                           lateVars >>
    \/ PdfParseFail /\ UNCHANGED << scoreVars, predictVars, concVars, reviewVars,
                           lateVars >>
    \/ (\E sent \in BOOLEAN : PdfNoUrl(sent))
           /\ UNCHANGED << scoreVars, predictVars, concVars, reviewVars,
                           lateVars >>
    \/ PdfErr /\ UNCHANGED << scoreVars, predictVars, concVars, reviewVars,
                           lateVars >>
    \/ PdfFetchFail /\ UNCHANGED << scoreVars, predictVars, concVars, reviewVars,
                           lateVars >>
    \/ PdfFetched /\ UNCHANGED << scoreVars, predictVars, concVars, reviewVars,
                           lateVars >>
    \/ PdfStoreOk /\ UNCHANGED << scoreVars, predictVars, concVars, reviewVars,
                           lateVars >>
    \/ PdfStoreFail /\ UNCHANGED << scoreVars, predictVars, concVars, reviewVars,
                           lateVars >>
    \/ (\E deleted \in BOOLEAN : PdfDelete(deleted))
           /\ UNCHANGED << scoreVars, predictVars, concVars, reviewVars,
                           lateVars >>
    \/ (\E sent \in BOOLEAN : PdfRouteTitleOnly(sent))
           /\ UNCHANGED << scoreVars, predictVars, concVars, reviewVars,
                           lateVars >>
    \/ (\E sent \in BOOLEAN : PdfRouteMl(sent))
           /\ UNCHANGED << scoreVars, predictVars, concVars, reviewVars,
                           lateVars >>
    \/ PdfReturn /\ UNCHANGED << scoreVars, predictVars, concVars, reviewVars,
                           lateVars >>
    \/ PdfTimeout /\ UNCHANGED << scoreVars, predictVars, concVars, reviewVars,
                           lateVars >>

InitPdf == PdfInit /\ ScoreOff /\ PredictOff /\ ConcOff /\ ReviewOff
    /\ LateOff

\* Content acquisition under redelivery.
SpecPdf == InitPdf /\ [][PdfNext]_vars

\* The harvester and content acquisition.  The records come from the
\* harvester, so every message parses and every message of the PDF queue
\* has a PDF URL.
StageNext ==
    \/ (\E m \in Msgs, sent \in BOOLEAN : HarvestPdf(m, sent))
           /\ UNCHANGED << scoreVars, predictVars, concVars, reviewVars,
                           lateVars >>
    \/ (\E m \in Msgs, sent \in BOOLEAN : HarvestDirect(m, sent))
           /\ UNCHANGED << scoreVars, predictVars, concVars, reviewVars,
                           lateVars >>
    \/ (\E b \in PdfBatches : PdfInvoke(b))
           /\ UNCHANGED << scoreVars, predictVars, concVars, reviewVars,
                           lateVars >>
    \/ PdfErr /\ UNCHANGED << scoreVars, predictVars, concVars, reviewVars,
                           lateVars >>
    \/ PdfFetchFail /\ UNCHANGED << scoreVars, predictVars, concVars, reviewVars,
                           lateVars >>
    \/ PdfFetched /\ UNCHANGED << scoreVars, predictVars, concVars, reviewVars,
                           lateVars >>
    \/ PdfStoreOk /\ UNCHANGED << scoreVars, predictVars, concVars, reviewVars,
                           lateVars >>
    \/ PdfStoreFail /\ UNCHANGED << scoreVars, predictVars, concVars, reviewVars,
                           lateVars >>
    \/ (\E deleted \in BOOLEAN : PdfDelete(deleted))
           /\ UNCHANGED << scoreVars, predictVars, concVars, reviewVars,
                           lateVars >>
    \/ (\E sent \in BOOLEAN : PdfRouteTitleOnly(sent))
           /\ UNCHANGED << scoreVars, predictVars, concVars, reviewVars,
                           lateVars >>
    \/ (\E sent \in BOOLEAN : PdfRouteMl(sent))
           /\ UNCHANGED << scoreVars, predictVars, concVars, reviewVars,
                           lateVars >>
    \/ PdfReturn /\ UNCHANGED << scoreVars, predictVars, concVars, reviewVars,
                           lateVars >>
    \/ PdfTimeout /\ UNCHANGED << scoreVars, predictVars, concVars, reviewVars,
                           lateVars >>

InitStage == HarvestInit /\ ScoreOff /\ PredictOff /\ ConcOff
             /\ ReviewOff
    /\ LateOff

SpecStage == InitStage /\ [][StageNext]_vars

\* Content acquisition, the scoring of what it forwards, and deep review.
ReviewNext ==
    \/ (\E b \in PdfBatches : PdfInvoke(b))
           /\ UNCHANGED << scoreVars, predictVars, concVars, reviewVars,
                           lateVars >>
    \/ (\E sent \in BOOLEAN : PdfNoUrl(sent))
           /\ UNCHANGED << scoreVars, predictVars, concVars, reviewVars,
                           lateVars >>
    \/ PdfErr /\ UNCHANGED << scoreVars, predictVars, concVars, reviewVars,
                           lateVars >>
    \/ PdfFetchFail
           /\ UNCHANGED << scoreVars, predictVars, concVars, reviewVars,
                           lateVars >>
    \/ PdfFetched
           /\ UNCHANGED << scoreVars, predictVars, concVars, reviewVars,
                           lateVars >>
    \/ PdfStoreOk
           /\ UNCHANGED << scoreVars, predictVars, concVars, reviewVars,
                           lateVars >>
    \/ PdfStoreFail
           /\ UNCHANGED << scoreVars, predictVars, concVars, reviewVars,
                           lateVars >>
    \/ (\E deleted \in BOOLEAN : PdfDelete(deleted))
           /\ UNCHANGED << scoreVars, predictVars, concVars, reviewVars,
                           lateVars >>
    \/ (\E sent \in BOOLEAN : PdfRouteTitleOnly(sent))
           /\ UNCHANGED << scoreVars, predictVars, concVars, reviewVars,
                           lateVars >>
    \/ (\E sent \in BOOLEAN : PdfRouteMl(sent))
           /\ UNCHANGED << scoreVars, predictVars, concVars, reviewVars,
                           lateVars >>
    \/ PdfReturn
           /\ UNCHANGED << scoreVars, predictVars, concVars, reviewVars,
                           lateVars >>
    \/ PdfTimeout
           /\ UNCHANGED << scoreVars, predictVars, concVars, reviewVars,
                           lateVars >>
    \/ (\E o \in CaOrders : ScoreForwarded(o))
           /\ UNCHANGED << predictVars, concVars, lateVars >>
    \/ (\E ok \in BOOLEAN : ReviewRouted(ok))
           /\ UNCHANGED << predictVars, concVars, lateVars >>
    \/ (\E ok \in BOOLEAN : ReviewScored(ok))
           /\ UNCHANGED << predictVars, concVars, lateVars >>

InitReview == ReviewInit /\ PredictOff /\ ConcOff /\ LateOff

SpecReview == InitReview /\ [][ReviewNext]_vars

\* The stage markers the stages give a record.
StageTags == {"ai_summary_direct", "ai_summary_title_only", "ml_prediction"}

\* Stage a comes before stage b: only the unset marker comes before
\* another one.
EarlierStage(a, b) == a = "None" /\ b \in StageTags

notifyRest == << scoreVars, predictVars, pdfVars, concVars, reviewVars,
                 harvestVars, noteVars >>

NotifyNext ==
    \/ (\E b \in NotifyBatches : NotifyInvoke(b))
           /\ UNCHANGED notifyRest
    \/ NotifyInitOk
           /\ UNCHANGED notifyRest
    \/ NotifyInitFail
           /\ UNCHANGED notifyRest
    \/ NotifyNoBody
           /\ UNCHANGED notifyRest
    \/ NotifyParseFail
           /\ UNCHANGED notifyRest
    \/ NotifyParsed
           /\ UNCHANGED notifyRest
    \/ NotifyEmailOk
           /\ UNCHANGED notifyRest
    \/ NotifyEmailFail
           /\ UNCHANGED notifyRest
    \/ NotifyMarkOk
           /\ UNCHANGED notifyRest
    \/ NotifyMarkFail
           /\ UNCHANGED notifyRest
    \/ NotifyReturn
           /\ UNCHANGED notifyRest

InitNotify ==
    /\ NotifyInit /\ ScoreOff /\ PredictOff /\ PdfOff /\ ConcOff
    /\ ReviewOff /\ HarvestOff /\ NoteOff

\* The notifier under redelivery.
SpecNotify == InitNotify /\ [][NotifyNext]_vars

\* The variables a run of the harvester leaves alone.
harvestRest == << scoreVars, predictVars, concVars, reviewVars,
                  notifyVars, noteVars >>

HarvestNext ==
    \/ HarvestTestMode /\ UNCHANGED harvestRest
    \/ HarvestSave /\ UNCHANGED harvestRest
    \/ SaveRecordOk /\ UNCHANGED harvestRest
    \/ SaveRecordFail /\ UNCHANGED harvestRest
    \/ (\E m \in Msgs, sent \in BOOLEAN : RunHarvestPdf(m, sent))
           /\ UNCHANGED harvestRest
    \/ (\E m \in Msgs, sent \in BOOLEAN : RunHarvestDirect(m, sent))
           /\ UNCHANGED harvestRest
    \/ HarvestReturn /\ UNCHANGED harvestRest

InitHarvest ==
    /\ HarvestRunInit /\ ScoreOff /\ PredictOff /\ ConcOff /\ ReviewOff
    /\ NotifyOff /\ NoteOff

\* One run of the harvester.
SpecHarvest == InitHarvest /\ [][HarvestNext]_vars

\* The variables the end of process_summary_message leaves alone.
noteRest == << scoreVars, predictVars, pdfVars, concVars, reviewVars,
               notifyVars, harvestVars >>

NoteNext ==
    \/ (\E ok \in BOOLEAN : StoreSummary(ok)) /\ UNCHANGED noteRest
    \/ DecideNotification /\ UNCHANGED noteRest
    \/ (\E ok \in BOOLEAN : StoreSentNote(ok)) /\ UNCHANGED noteRest
    \/ (\E ok \in BOOLEAN : SendNotification(ok)) /\ UNCHANGED noteRest
    \/ (\E ok \in BOOLEAN : StoreSuppressedNote(ok)) /\ UNCHANGED noteRest

InitNote ==
    /\ NoteInit /\ ScoreOff /\ PredictOff /\ PdfOff /\ ConcOff
    /\ ReviewOff /\ NotifyOff /\ HarvestOff

\* Deep review from the summary to the notification.
SpecNote == InitNote /\ [][NoteNext]_vars

=============================================================================
